---------------------------- MODULE Spec2Model ----------------------------
(***************************************************************************)
(* Model of the scheme matching core of GovtSchemesAI:                     *)
(*   src/backend/scoring.py          ScoringEngine, ScoreBreakdown         *)
(*   src/backend/matching_engine.py  MatchingEngine, MatchResult           *)
(*                                                                         *)
(* Python values are represented as follows.                               *)
(*   - A key that is absent from a profile dict is None (-1) for the       *)
(*     integer fields, "" for the string fields and NoFlag for the flags;  *)
(*     a flag whose key is present with the value None is Nil.             *)
(*   - A rule field that is absent is None (-1) for the integers, {} for   *)
(*     the category / occupation lists and NoFlag for the flags.  The      *)
(*     states field is the list of the rule as a sequence, and the literal *)
(*     'all' the one-element list <<"all">> the code wraps it into.        *)
(*   - Floating point quantities (earned weight, base score) are IEEE-754  *)
(*     doubles, computed with the operations and in the order of the code. *)
(* Wall-clock timing and the _match_history log built from it are          *)
(* advisory output of the engine and are not part of the model.            *)
(***************************************************************************)
EXTENDS Integers, Sequences, FiniteSets, TLC

\* ------------------------------------------------------------------------
\* Python value conventions
\* ------------------------------------------------------------------------

\* Python None for an integer-valued field
None == -1

\* a flag whose key is absent from the dict
NoFlag == "absent"

\* Python None where the other values are strings or records, and the two
\* booleans
Nil == "None"
True == "True"
False == "False"

\* dict.get(flag) is None: the key is absent or holds None
Unset(value) == value \in {NoFlag, Nil}

\* the literal 'all' of eligibility['states']
ALL == <<"all">>

\* the items of a Python list
Items(list) == {list[i] : i \in DOMAIN list}

Min(a, b) == IF a <= b THEN a ELSE b
Max(a, b) == IF a >= b THEN a ELSE b
Abs(a) == IF a >= 0 THEN a ELSE 0 - a

\* str.lower() on the strings that occur in profiles and rules: every
\* result of Upper and Title below, and the capitalised words of the
\* catalogs; a string without upper-case letters is its own result
Lower(s) ==
    CASE s = "Female" -> "female"
      [] s = "Male" -> "male"
      [] s = "Health" -> "health"
      [] s = "Economic" -> "economic"
      [] s = "OBC" -> "obc"
      [] s = "SC" -> "sc"
      [] s = "ST" -> "st"
      [] s = "GENERAL" -> "general"
      [] s = "MINORITY" -> "minority"
      [] s = "Farmer" -> "farmer"
      [] s = "Student" -> "student"
      [] s = "Business" -> "business"
      [] s = "Labour" -> "labour"
      [] s = "Unemployed" -> "unemployed"
      [] s = "Housewife" -> "housewife"
      [] s = "Teacher" -> "teacher"
      [] s = "Doctor" -> "doctor"
      [] s = "Artisan" -> "artisan"
      [] s = "Agriculture" -> "agriculture"
      [] s = "Farm Worker" -> "farm worker"
      [] s = "Fisherman" -> "fisherman"
      [] s = "Dairy Farmer" -> "dairy farmer"
      [] s = "Researcher" -> "researcher"
      [] s = "Scholar" -> "scholar"
      [] s = "Entrepreneur" -> "entrepreneur"
      [] s = "Self-Employed" -> "self-employed"
      [] s = "Trader" -> "trader"
      [] s = "Shopkeeper" -> "shopkeeper"
      [] s = "Worker" -> "worker"
      [] s = "Construction" -> "construction"
      [] s = "Daily Wage" -> "daily wage"
      [] s = "Factory Worker" -> "factory worker"
      [] s = "Job Seeker" -> "job seeker"
      [] s = "Fresh Graduate" -> "fresh graduate"
      [] s = "Homemaker" -> "homemaker"
      [] s = "Self-Help Group" -> "self-help group"
      [] s = "Educator" -> "educator"
      [] s = "Professor" -> "professor"
      [] s = "Lecturer" -> "lecturer"
      [] s = "Medical Professional" -> "medical professional"
      [] s = "Health Worker" -> "health worker"
      [] s = "Craftsman" -> "craftsman"
      [] s = "Weaver" -> "weaver"
      [] s = "Potter" -> "potter"
      [] s = "Handicraft" -> "handicraft"
      [] s = "Farm" -> "farm"
      [] OTHER -> s

\* str.upper() on the category strings that occur in profiles and rules
Upper(s) ==
    CASE s \in {"obc", "OBC"} -> "OBC"
      [] s \in {"sc", "SC"} -> "SC"
      [] s \in {"st", "ST"} -> "ST"
      [] s \in {"general", "GENERAL"} -> "GENERAL"
      [] s \in {"minority", "MINORITY"} -> "MINORITY"
      [] OTHER -> s

\* str.title() on the occupation strings of the model: the first letter of
\* every word in upper case, the other letters in lower case
Title(s) ==
    CASE s \in {"farmer", "Farmer"} -> "Farmer"
      [] s \in {"student", "Student"} -> "Student"
      [] s \in {"business", "Business"} -> "Business"
      [] s \in {"labour", "Labour"} -> "Labour"
      [] s \in {"unemployed", "Unemployed"} -> "Unemployed"
      [] s \in {"housewife", "Housewife"} -> "Housewife"
      [] s \in {"teacher", "Teacher"} -> "Teacher"
      [] s \in {"doctor", "Doctor"} -> "Doctor"
      [] s \in {"artisan", "Artisan"} -> "Artisan"
      [] s \in {"agriculture", "Agriculture"} -> "Agriculture"
      [] s \in {"farm worker", "Farm Worker"} -> "Farm Worker"
      [] s \in {"fisherman", "Fisherman"} -> "Fisherman"
      [] s \in {"dairy farmer", "Dairy Farmer"} -> "Dairy Farmer"
      [] s \in {"researcher", "Researcher"} -> "Researcher"
      [] s \in {"scholar", "Scholar"} -> "Scholar"
      [] s \in {"entrepreneur", "Entrepreneur"} -> "Entrepreneur"
      [] s \in {"self-employed", "Self-Employed"} -> "Self-Employed"
      [] s \in {"trader", "Trader"} -> "Trader"
      [] s \in {"shopkeeper", "Shopkeeper"} -> "Shopkeeper"
      [] s \in {"worker", "Worker"} -> "Worker"
      [] s \in {"construction", "Construction"} -> "Construction"
      [] s \in {"daily wage", "Daily Wage"} -> "Daily Wage"
      [] s \in {"factory worker", "Factory Worker"} -> "Factory Worker"
      [] s \in {"job seeker", "Job Seeker"} -> "Job Seeker"
      [] s \in {"fresh graduate", "Fresh Graduate"} -> "Fresh Graduate"
      [] s \in {"homemaker", "Homemaker"} -> "Homemaker"
      [] s \in {"self-help group", "Self-Help Group"} -> "Self-Help Group"
      [] s \in {"educator", "Educator"} -> "Educator"
      [] s \in {"professor", "Professor"} -> "Professor"
      [] s \in {"lecturer", "Lecturer"} -> "Lecturer"
      [] s \in {"medical professional", "Medical Professional"} -> "Medical Professional"
      [] s \in {"health worker", "Health Worker"} -> "Health Worker"
      [] s \in {"craftsman", "Craftsman"} -> "Craftsman"
      [] s \in {"weaver", "Weaver"} -> "Weaver"
      [] s \in {"potter", "Potter"} -> "Potter"
      [] s \in {"handicraft", "Handicraft"} -> "Handicraft"
      [] s \in {"farm", "Farm"} -> "Farm"
      [] OTHER -> s

\* str.strip() on the strings that occur in profiles
Strip(s) ==
    CASE s = "Bihar " -> "Bihar"
      [] s = " " -> ""
      [] OTHER -> s

LowerAll(S) == {Lower(x) : x \in S}

\* ScoringEngine._safe_int / MatchingEngine._safe_int on None and integers
_safe_int(value) == IF value = None THEN 0 ELSE value

\* ScoringEngine._parse_bool on None and booleans
_parse_bool(value) == value = True

\* the coercion of a profile flag used by the matching engine:
\* user.get(flag, False), truthiness of the result
Truthy(value) == value = True

\* user.get(flag, False): False for an absent key, the value of the key
\* otherwise, None included (None == True and None == False are both false)
UserFlag(value) == IF value = NoFlag THEN False ELSE value

\* ------------------------------------------------------------------------
\* Python float arithmetic (IEEE-754 binary64, round to nearest even).
\* A natural number of any size is a little-endian sequence of limbs in
\* base LIMB; a non-negative float is m * 2^e with m of exactly 53 bits.
\* ------------------------------------------------------------------------

LIMB_BITS == 14
LIMB == 16384
MANT_BITS == 53

Tail0(a) == IF a = <<>> THEN <<>> ELSE Tail(a)
Limb(a, i) == IF i <= Len(a) THEN a[i] ELSE 0

RECURSIVE BNat(_)
BNat(n) == IF n = 0 THEN <<>> ELSE <<n % LIMB>> \o BNat(n \div LIMB)

RECURSIVE BNorm(_)
BNorm(a) ==
    IF a = <<>> THEN <<>>
    ELSE IF a[Len(a)] = 0 THEN BNorm(SubSeq(a, 1, Len(a) - 1))
    ELSE a

RECURSIVE BToInt(_)
BToInt(a) == IF a = <<>> THEN 0 ELSE a[1] + LIMB * BToInt(Tail(a))

RECURSIVE BAddC(_, _, _)
BAddC(a, b, c) ==
    IF a = <<>> /\ b = <<>>
    THEN IF c = 0 THEN <<>> ELSE <<c>>
    ELSE LET t == Limb(a, 1) + Limb(b, 1) + c
         IN  <<t % LIMB>> \o BAddC(Tail0(a), Tail0(b), t \div LIMB)

BAdd(a, b) == BAddC(a, b, 0)

\* a - b for a >= b
RECURSIVE BSubB(_, _, _)
BSubB(a, b, borrow) ==
    IF a = <<>> THEN <<>>
    ELSE LET t == a[1] - Limb(b, 1) - borrow
         IN  <<(t + LIMB) % LIMB>>
             \o BSubB(Tail(a), Tail0(b), IF t < 0 THEN 1 ELSE 0)

BSub(a, b) == BNorm(BSubB(a, b, 0))

RECURSIVE BCmpFrom(_, _, _)
BCmpFrom(a, b, i) ==
    IF i = 0 THEN 0
    ELSE IF a[i] < b[i] THEN -1
    ELSE IF a[i] > b[i] THEN 1
    ELSE BCmpFrom(a, b, i - 1)

\* -1, 0, 1 as a < b, a = b, a > b
BCmp(a, b) ==
    IF Len(a) < Len(b) THEN -1
    ELSE IF Len(a) > Len(b) THEN 1
    ELSE BCmpFrom(a, b, Len(a))

\* a * k + c for 0 <= k <= LIMB
RECURSIVE BMulSmall(_, _, _)
BMulSmall(a, k, c) ==
    IF a = <<>> THEN BNat(c)
    ELSE LET t == a[1] * k + c
         IN  <<t % LIMB>> \o BMulSmall(Tail(a), k, t \div LIMB)

RECURSIVE BMulAcc(_, _)
BMulAcc(a, b) ==
    IF b = <<>> THEN <<>>
    ELSE BAdd(BMulSmall(a, b[1], 0), <<0>> \o BMulAcc(a, Tail(b)))

BMul(a, b) == BNorm(BMulAcc(a, b))

\* a * 2^n
BShl(a, n) ==
    IF a = <<>> THEN <<>>
    ELSE [i \in 1..(n \div LIMB_BITS) |-> 0]
         \o BNorm(BMulSmall(a, 2 ^ (n % LIMB_BITS), 0))

\* a \div 2^n
BShr(a, n) ==
    LET q == n \div LIMB_BITS
        r == n % LIMB_BITS
        d == SubSeq(a, q + 1, Len(a))
    IN  BNorm([i \in 1..Len(d) |->
                 (d[i] \div (2 ^ r))
                 + (Limb(d, i + 1) % (2 ^ r)) * (2 ^ (LIMB_BITS - r))])

BitLenSmall(x) == CHOOSE k \in 1..LIMB_BITS : 2 ^ (k - 1) <= x /\ x < 2 ^ k

BBitLen(a) ==
    IF a = <<>> THEN 0
    ELSE LIMB_BITS * (Len(a) - 1) + BitLenSmall(a[Len(a)])

\* bit i of a, bit 0 the least significant
BBit(a, i) ==
    (Limb(a, i \div LIMB_BITS + 1) \div (2 ^ (i % LIMB_BITS))) % 2

\* the top two limbs of a, as the limbs at positions Len(d) and Len(d) + 1
Top2(a, len) == Limb(a, len + 1) * LIMB + Limb(a, len)

\* the digit q with q * d <= r < (q + 1) * d, for r < d * LIMB: the estimate
\* from the leading limbs is never too small and too large by a bounded
\* amount
BDigit(r, d) ==
    LET top == d[Len(d)]
        est == Min(Top2(r, Len(d)) \div top, LIMB - 1)
        low == Max(0, est - 2 * (LIMB \div top) - 2)
    IN  CHOOSE q \in low..est :
            /\ BCmp(BNorm(BMulSmall(d, q, 0)), r) <= 0
            /\ BCmp(BNorm(BMulSmall(d, q + 1, 0)), r) > 0

\* long division n / d, one limb of n at a time from limb i down; the
\* quotient digit and the remainder of a step are computed before the next
\* step is taken
RECURSIVE BDivStep(_, _, _, _, _)

\* the next step, once the quotient q3 and the remainder r3 are known
BDivNext(n, d, i, q3, r3) ==
    IF Len(q3) > 0 /\ Len(r3) >= 0
    THEN BDivStep(n, d, i - 1, q3, r3)
    ELSE [q |-> <<>>, r |-> <<>>]

\* the step for the partial remainder r2 and its quotient digit
BDivSub(n, d, i, q, r2, digit) ==
    BDivNext(n, d, i, <<digit>> \o q,
             BSub(r2, BNorm(BMulSmall(d, digit, 0))))

\* the step for the partial remainder r2
BDivPart(n, d, i, q, r2) == BDivSub(n, d, i, q, r2, BDigit(r2, d))

BDivStep(n, d, i, q, r) ==
    IF i = 0 THEN [q |-> BNorm(q), r |-> r]
    ELSE BDivPart(n, d, i, q, BNorm(<<n[i]>> \o r))

\* n divided by d # 0: quotient and remainder.  The leading Len(d) - 1 limbs
\* of n are below d and start as the remainder.
BDivSkip(n, d, skip) ==
    BDivStep(n, d, Len(n) - skip, <<>>, SubSeq(n, Len(n) - skip + 1, Len(n)))

BDivMod(n, d) == BDivSkip(n, d, Min(Len(n), Len(d) - 1))

FZero == [m |-> <<>>, e |-> 0]

\* the mantissa q2 of sh dropped bits, renormalised when rounding carried
\* it to 54 bits
FPlace(q2, e, sh) ==
    IF BBitLen(q2) > MANT_BITS
    THEN [m |-> BShr(q2, 1), e |-> e + sh + 1]
    ELSE [m |-> q2, e |-> e + sh]

\* q rounded up or not: c compares the dropped bits with half a unit of q
FRoundUp(q, c, sticky) ==
    IF c > 0 \/ (c = 0 /\ (sticky \/ q[1] % 2 = 1))
    THEN BAdd(q, <<1>>)
    ELSE q

\* n of more than 53 bits: q is n without its sh lowest bits
FRoundTo(n, e, sticky, sh, q) ==
    FPlace(FRoundUp(q, BCmp(BSub(n, BShl(q, sh)), BShl(<<1>>, sh - 1)),
                    sticky),
           e, sh)

\* n # 0 of len bits
FRoundLen(n, e, sticky, len) ==
    IF len <= MANT_BITS
    THEN [m |-> BShl(n, MANT_BITS - len), e |-> e - (MANT_BITS - len)]
    ELSE FRoundTo(n, e, sticky, len - MANT_BITS, BShr(n, len - MANT_BITS))

\* the float nearest to n * 2^e (+ a positive amount below one unit of n
\* when sticky), ties to the even mantissa
FRound(n, e, sticky) ==
    IF n = <<>> THEN FZero ELSE FRoundLen(n, e, sticky, BBitLen(n))

\* float(n) for an integer 0 <= n < 2^31
FInt(n) == FRound(BNat(n), 0, FALSE)

\* x < y
FLess(x, y) ==
    LET e == Min(x.e, y.e)
    IN  IF y.m = <<>> THEN FALSE
        ELSE IF x.m = <<>> THEN TRUE
        ELSE BCmp(BShl(x.m, x.e - e), BShl(y.m, y.e - e)) < 0

\* int(x), truncation of a float below 2^31
FTrunc(x) ==
    IF x.m = <<>> THEN 0
    ELSE IF x.e >= 0 THEN BToInt(BShl(x.m, x.e))
    ELSE BToInt(BShr(x.m, 0 - x.e))

\* t or t + 1, the nearer to the value it was cut from, a tie going to the
\* even one: c compares the part cut off with one half
HalfEven(t, c) ==
    IF c > 0 \/ (c = 0 /\ t % 2 = 1) THEN t + 1 ELSE t

\* round-half-even of n / 2^sh to an integer, for sh >= 1: q is n without
\* its sh lowest bits
RoundShift(n, sh, q) ==
    HalfEven(BToInt(q), BCmp(BSub(n, BShl(q, sh)), BShl(<<1>>, sh - 1)))

\* round-half-even of n * 2^e to an integer
RoundExact(n, e) ==
    IF n = <<>> THEN 0
    ELSE IF e >= 0 THEN BToInt(BShl(n, e))
    ELSE RoundShift(n, 0 - e, BShr(n, 0 - e))

\* round-half-even of x * scale to an integer, for the exact value of the
\* float x >= 0 and an integer scale >= 1
RoundScaled(x, scale) == RoundExact(BMul(x.m, BNat(scale)), x.e)

\* Python's round(x) of a non-negative float: the nearest integer, a tie
\* going to the even one
PyRound(x) == RoundScaled(x, 1)

\* An arithmetic expression of the source over floats: its operands are
\* integers (Num), floats already computed (Val) and decimal literals (Lit),
\* and FVal evaluates it as Python does, one correctly rounded operation at a
\* time.
Num(n) == [op |-> "num", n |-> n]
Val(v) == [op |-> "val", v |-> v]
Mul(x, y) == [op |-> "mul", x |-> x, y |-> y]
Div(x, y) == [op |-> "div", x |-> x, y |-> y]
Add(x, y) == [op |-> "add", x |-> x, y |-> y]
\* x - y for x >= y
Sub(x, y) == [op |-> "sub", x |-> x, y |-> y]
\* abs(x - y)
AbsSub(x, y) == [op |-> "abs_sub", x |-> x, y |-> y]
\* max(x, y)
MaxOf(x, y) == [op |-> "max", x |-> x, y |-> y]
\* max(0, x - y)
Monus(x, y) == [op |-> "monus", x |-> x, y |-> y]
\* round(x, ndigits)
Rounded(x, ndigits) == [op |-> "round", x |-> x, n |-> ndigits]
\* a decimal literal num/den of the source, e.g. 0.8 as Lit(8, 10)
Lit(num, den) == Div(Num(num), Num(den))
\* a percentage p as the literal p/100 of the source (0.2, 0.15, 0.95, ...)
Pct(p) == Lit(p, 100)

\* The value of one operation before it is rounded to a float: n * 2^e, plus
\* a positive amount below one unit of n when sticky.
Exact(n, e, sticky) == [n |-> n, e |-> e, sticky |-> sticky]

\* x * y
MulExact(x, y) == Exact(BMul(x.m, y.m), x.e + y.e, FALSE)

\* the quotient and remainder dm at exponent e
QuotExact(dm, e) == Exact(dm.q, e, dm.r # <<>>)

\* x / y, y # 0: the quotient of the mantissas, both scaled so that the
\* divisor fills its leading limb
DivExact(x, y) ==
    QuotExact(BDivMod(BShl(x.m, MANT_BITS + 6), BShl(y.m, 3)),
              x.e - (MANT_BITS + 3) - y.e)

\* the larger minus the smaller of a and b, c comparing a with b
Difference(a, b, c) == IF c < 0 THEN BSub(b, a) ELSE BSub(a, b)

\* x + y, x - y, abs(x - y), max(x, y) and max(0, x - y) of the mantissas a
\* and b of x and y at the common exponent e, c comparing a with b
SumExact(op, a, b, e, c) ==
    IF op = "add" THEN Exact(BAdd(a, b), e, FALSE)
    ELSE IF op = "max" THEN Exact(IF c < 0 THEN b ELSE a, e, FALSE)
    ELSE IF op = "monus" /\ c < 0 THEN Exact(<<>>, 0, FALSE)
    ELSE Exact(Difference(a, b, c), e, FALSE)

\* the same with c still to be computed
Compared(op, a, b, e) == SumExact(op, a, b, e, BCmp(a, b))

\* the same on the floats x and y, e the smaller of their exponents
Aligned(op, x, y, e) ==
    Compared(op, BShl(x.m, x.e - e), BShl(y.m, y.e - e), e)

\* the operation op on the floats x and y, unrounded
Unrounded(op, x, y) ==
    IF op = "mul" THEN MulExact(x, y)
    ELSE IF op = "div" THEN DivExact(x, y)
    ELSE Aligned(op, x, y, Min(x.e, y.e))

\* the float nearest to the unrounded value r
Nearest(r) == FRound(r.n, r.e, r.sticky)

\* the operation op on the floats x and y: 0 * y, 0 / y and x * 0 are 0, and
\* x + 0, x - 0, abs(x - 0), max(x, 0) and max(0, x - 0) are x
Apply(op, x, y) ==
    IF x.m = <<>> /\ op \in {"mul", "div"} THEN FZero
    ELSE IF y.m = <<>> /\ op # "div"
    THEN IF op = "mul" THEN FZero ELSE x
    ELSE Nearest(Unrounded(op, x, y))

RECURSIVE FVal(_)

\* round(x, ndigits): the float nearest to the decimal of ndigits places
\* nearest to x, the quotient of two integers
RoundTo(x, ndigits) ==
    IF x.m = <<>> THEN FZero
    ELSE FVal(Div(Num(RoundScaled(x, 10 ^ ndigits)), Num(10 ^ ndigits)))

FVal(t) ==
    IF t.op = "num" THEN FInt(t.n)
    ELSE IF t.op = "val" THEN t.v
    ELSE IF t.op = "round" THEN RoundTo(FVal(t.x), t.n)
    ELSE Apply(t.op, FVal(t.x), FVal(t.y))

\* the values of the terms ts
Values(ts) == [i \in DOMAIN ts |-> FVal(ts[i])]

\* v[1] <= v[2]
Ordered(v) == ~FLess(v[2], v[1])

\* x <= y on the values of the terms x and y
AtMost(x, y) == Ordered(Values(<<x, y>>))

\* Python's round(x, ndigits) of a non-negative float
Round(x, ndigits) == FVal(Rounded(Val(x), ndigits))

\* the float that the format f"{x:.0%}" prints to no decimals: x * 100
Percent(x) == Mul(x, Num(100))

\* ------------------------------------------------------------------------
\* Configuration
\* ------------------------------------------------------------------------

\* WeightProfile.BALANCED
BALANCED ==
    [age |-> 15, gender |-> 15, state |-> 20, category |-> 15,
     income |-> 15, occupation |-> 10, special |-> 10]

\* WeightProfile.LOCATION_PRIORITY
LOCATION_PRIORITY ==
    [age |-> 10, gender |-> 10, state |-> 30, category |-> 15,
     income |-> 15, occupation |-> 10, special |-> 10]

\* WeightProfile.ECONOMIC_PRIORITY
ECONOMIC_PRIORITY ==
    [age |-> 10, gender |-> 10, state |-> 15, category |-> 15,
     income |-> 25, occupation |-> 10, special |-> 15]

\* WeightProfile.DEMOGRAPHIC_PRIORITY
DEMOGRAPHIC_PRIORITY ==
    [age |-> 20, gender |-> 20, state |-> 15, category |-> 20,
     income |-> 10, occupation |-> 5, special |-> 10]

\* WeightProfile.OCCUPATION_PRIORITY
OCCUPATION_PRIORITY ==
    [age |-> 10, gender |-> 10, state |-> 15, category |-> 10,
     income |-> 15, occupation |-> 25, special |-> 15]

\* ScoringEngine.WEIGHTS of the engine's scorer: ScoringEngine() default
WEIGHTS == BALANCED

\* MatchConfig
MIN_MATCH_SCORE == 30
STRONG_MATCH_THRESHOLD == 75
PERFECT_MATCH_THRESHOLD == 90
MODERATE_MATCH_THRESHOLD == 50
DEFAULT_MAX_RESULTS == 20
ABSOLUTE_MAX_RESULTS == 100
BOOST_BPL == 5
BOOST_DISABILITY == 5
BOOST_SENIOR_CITIZEN == 3
BOOST_WOMEN == 2
BOOST_EXACT_OCCUPATION == 5
BOOST_EXACT_CATEGORY == 3
PENALTY_NO_URL == 2
PENALTY_NO_DESCRIPTION == 3

\* sorted(MatchConfig.PROFILE_FIELDS.keys())
PROFILE_FIELDS ==
    <<"age", "annual_income", "category", "disability", "gender",
      "is_bpl", "is_farmer", "occupation", "state">>

\* ScoreBreakdown.calculate_final: score of a rule without applicable criteria
NEUTRAL_SCORE == 50

\* ScoringEngine._score_age: tolerance in years outside the range
AGE_TOLERANCE == 5

\* ScoringEngine._apply_bonuses: senior citizen age
SENIOR_AGE == 60

\* ------------------------------------------------------------------------
\* Static relation tables
\* ------------------------------------------------------------------------

\* ScoringEngine.STATE_NEIGHBORS
STATE_NEIGHBORS ==
    [s \in {"Delhi", "Haryana", "Punjab", "Uttar Pradesh", "Bihar",
            "West Bengal", "Maharashtra", "Karnataka", "Tamil Nadu",
            "Kerala", "Gujarat", "Rajasthan", "Madhya Pradesh",
            "Andhra Pradesh", "Telangana", "Odisha", "Jharkhand",
            "Chhattisgarh", "Assam", "Himachal Pradesh", "Uttarakhand",
            "Goa", "Sikkim", "Meghalaya", "Nagaland", "Manipur",
            "Mizoram", "Tripura", "Arunachal Pradesh"} |->
     CASE s = "Delhi" -> {"Haryana", "Uttar Pradesh"}
       [] s = "Haryana" -> {"Delhi", "Punjab", "Rajasthan", "Uttar Pradesh",
                            "Himachal Pradesh"}
       [] s = "Punjab" -> {"Haryana", "Himachal Pradesh", "Rajasthan",
                           "Jammu and Kashmir", "Chandigarh"}
       [] s = "Uttar Pradesh" -> {"Delhi", "Haryana", "Rajasthan",
                                  "Madhya Pradesh", "Bihar", "Jharkhand",
                                  "Chhattisgarh", "Uttarakhand"}
       [] s = "Bihar" -> {"Uttar Pradesh", "Jharkhand", "West Bengal"}
       [] s = "West Bengal" -> {"Bihar", "Jharkhand", "Odisha", "Sikkim",
                                "Assam"}
       [] s = "Maharashtra" -> {"Gujarat", "Madhya Pradesh", "Chhattisgarh",
                                "Telangana", "Karnataka", "Goa"}
       [] s = "Karnataka" -> {"Maharashtra", "Goa", "Kerala", "Tamil Nadu",
                              "Telangana", "Andhra Pradesh"}
       [] s = "Tamil Nadu" -> {"Karnataka", "Kerala", "Andhra Pradesh",
                               "Puducherry"}
       [] s = "Kerala" -> {"Karnataka", "Tamil Nadu"}
       [] s = "Gujarat" -> {"Maharashtra", "Rajasthan", "Madhya Pradesh"}
       [] s = "Rajasthan" -> {"Gujarat", "Maharashtra", "Madhya Pradesh",
                              "Uttar Pradesh", "Haryana", "Punjab"}
       [] s = "Madhya Pradesh" -> {"Rajasthan", "Gujarat", "Maharashtra",
                                   "Chhattisgarh", "Uttar Pradesh"}
       [] s = "Andhra Pradesh" -> {"Telangana", "Karnataka", "Tamil Nadu",
                                   "Odisha", "Chhattisgarh"}
       [] s = "Telangana" -> {"Andhra Pradesh", "Maharashtra", "Karnataka",
                              "Chhattisgarh"}
       [] s = "Odisha" -> {"West Bengal", "Jharkhand", "Chhattisgarh",
                           "Andhra Pradesh"}
       [] s = "Jharkhand" -> {"Bihar", "West Bengal", "Odisha",
                              "Chhattisgarh", "Uttar Pradesh"}
       [] s = "Chhattisgarh" -> {"Madhya Pradesh", "Maharashtra", "Telangana",
                                 "Andhra Pradesh", "Odisha", "Jharkhand",
                                 "Uttar Pradesh"}
       [] s = "Assam" -> {"West Bengal", "Meghalaya", "Nagaland", "Manipur",
                          "Mizoram", "Tripura", "Arunachal Pradesh"}
       [] s = "Himachal Pradesh" -> {"Punjab", "Haryana", "Uttarakhand",
                                     "Jammu and Kashmir"}
       [] s = "Uttarakhand" -> {"Uttar Pradesh", "Himachal Pradesh"}
       [] s = "Goa" -> {"Maharashtra", "Karnataka"}
       [] s = "Sikkim" -> {"West Bengal"}
       [] s = "Meghalaya" -> {"Assam"}
       [] s = "Nagaland" -> {"Assam", "Manipur", "Arunachal Pradesh"}
       [] s = "Manipur" -> {"Assam", "Nagaland", "Mizoram"}
       [] s = "Mizoram" -> {"Assam", "Manipur", "Tripura"}
       [] s = "Tripura" -> {"Assam", "Mizoram"}
       [] s = "Arunachal Pradesh" -> {"Assam", "Nagaland"}]

\* ScoringEngine.RELATED_CATEGORIES
RELATED_CATEGORIES ==
    [c \in {"sc", "st", "obc", "general", "minority"} |->
     CASE c = "sc" -> {"st", "obc"}
       [] c = "st" -> {"sc", "obc"}
       [] c = "obc" -> {"sc", "st"}
       [] c = "general" -> {}
       [] c = "minority" -> {"obc"}]

\* ScoringEngine.RELATED_OCCUPATIONS
RELATED_OCCUPATIONS ==
    [o \in {"farmer", "student", "business", "labour", "unemployed",
            "housewife", "teacher", "doctor", "artisan"} |->
     CASE o = "farmer" -> {"agriculture", "farm worker", "fisherman",
                           "dairy farmer"}
       [] o = "student" -> {"researcher", "scholar"}
       [] o = "business" -> {"entrepreneur", "self-employed", "trader",
                             "shopkeeper"}
       [] o = "labour" -> {"worker", "construction", "daily wage",
                           "factory worker"}
       [] o = "unemployed" -> {"job seeker", "fresh graduate"}
       [] o = "housewife" -> {"homemaker", "self-help group"}
       [] o = "teacher" -> {"educator", "professor", "lecturer"}
       [] o = "doctor" -> {"medical professional", "health worker"}
       [] o = "artisan" -> {"craftsman", "weaver", "potter", "handicraft"}]

\* dict.get(key, []) on the three tables
Related(table, key) == IF key \in DOMAIN table THEN table[key] ELSE {}

\* Python's "a in b" on the occupation strings of the model (a is a
\* substring of b); every string is a substring of itself and "" of all
SubstringPairs ==
    {<<"farm", "farmer">>, <<"farm", "farm worker">>,
     <<"farm", "dairy farmer">>, <<"farmer", "dairy farmer">>,
     <<"worker", "farm worker">>, <<"worker", "factory worker">>,
     <<"worker", "health worker">>}

IsSubstring(a, b) == a = b \/ a = "" \/ <<a, b>> \in SubstringPairs

\* ScoringEngine._check_state_proximity, in percent
_check_state_proximity(user_state, eligible_states) ==
    IF Related(STATE_NEIGHBORS, user_state) \cap Items(eligible_states) # {}
    THEN 20 ELSE 0

\* ScoringEngine._check_category_relation, in percent
_check_category_relation(user_cat, eligible_cats) ==
    IF Related(RELATED_CATEGORIES, user_cat) \cap eligible_cats # {}
    THEN 15 ELSE 0

\* ScoringEngine._check_occupation_relation, in percent
_check_occupation_relation(user_occ, eligible_occs) ==
    IF Related(RELATED_OCCUPATIONS, user_occ) \cap eligible_occs # {}
    THEN 50
    ELSE IF \E e \in eligible_occs : user_occ \in Related(RELATED_OCCUPATIONS, e)
    THEN 50
    ELSE IF \E e \in eligible_occs : IsSubstring(user_occ, e) \/ IsSubstring(e, user_occ)
    THEN 30
    ELSE 0

\* ------------------------------------------------------------------------
\* Scoring engine (src/backend/scoring.py)
\* ------------------------------------------------------------------------

\* a ScoringEngine() holding the weights as shipped
DefaultScorer == [WEIGHTS |-> WEIGHTS, enable_gradient |-> TRUE]

\* the detail text of an add_field call: kind names the sentence; text, nums
\* and list hold the values formatted into it, in order (a Python list as
\* the set of its items, the states joined by ', ' as the sequence of the
\* states joined); flags holds the parts of the special_flags detail
Detail(kind, text, nums, list) ==
    [kind |-> kind, text |-> text, nums |-> nums, list |-> list,
     flags |-> <<>>, percent |-> <<>>]

\* a detail text that ends with the gradient x, an arithmetic expression,
\* printed as a percentage: f"... ({x:.0%})"
PercentDetail(kind, text, nums, list, x) ==
    [kind |-> kind, text |-> text, nums |-> nums, list |-> list,
     flags |-> <<>>, percent |-> <<x>>]

\* a detail text without formatted values
Sentence(kind) == Detail(kind, <<>>, <<>>, {})

\* the arguments of one breakdown.add_field call: earned and gradient are
\* arithmetic expressions, applicable an integer weight
Field(name, earned, applicable, detail, gradient) ==
    [name |-> name, earned |-> earned, applicable |-> applicable,
     detail |-> detail, gradient |-> gradient]

\* a field that earns the integer amount earned, with gradient 0 or 1.0
IntField(name, earned, applicable, detail, gradient) ==
    Field(name, Num(earned), applicable, detail, Num(gradient))

\* a field that earns weight * (pct / 100), pct / 100 a float such as 0.2,
\* and is added with that gradient
PctField(name, weight, pct, detail) ==
    Field(name, Mul(Num(weight), Pct(pct)), weight, detail, Pct(pct))

\* _score_age, age inside the range with both bounds set and a positive span:
\* mid = (min_age + max_age) / 2,
\* distance = abs(user_age - mid) / (range_span / 2),
\* gradient = max(0.8, 1.0 - distance * 0.2)
AgeInRangeGradient(user_age, min_age, max_age) ==
    MaxOf(Lit(8, 10),
          Sub(Num(1),
              Mul(Div(AbsSub(Num(user_age),
                             Div(Num(min_age + max_age), Num(2))),
                      Div(Num(max_age - min_age), Num(2))),
                  Lit(2, 10))))

\* earned = weight * gradient for an age inside the range
AgeInRangeEarned(user_age, min_age, max_age, weight) ==
    Mul(Num(weight), AgeInRangeGradient(user_age, min_age, max_age))

\* _score_age, age outside the range by distance <= 5 years:
\* gradient = max(0, 1.0 - (distance / 5) * 0.8)
AgeNearGradient(distance) ==
    Sub(Num(1), Mul(Div(Num(distance), Num(AGE_TOLERANCE)), Lit(8, 10)))

\* earned = weight * gradient for an age outside the range
AgeNearEarned(distance, weight) == Mul(Num(weight), AgeNearGradient(distance))

\* min_age or '?' in age_str: '?' (as None) for a bound that is None or 0
AgeOr(bound) == IF bound = None \/ bound = 0 THEN None ELSE bound

\* ScoringEngine._score_age
_score_age(user, elig, sc) ==
    LET min_age == elig.min_age
        max_age == elig.max_age
        user_age == _safe_int(user.age)
        weight == sc.WEIGHTS.age
        in_range == ~(min_age # None /\ user_age < min_age)
                    /\ ~(max_age # None /\ user_age > max_age)
        range_span == max_age - min_age
        distance == IF min_age # None /\ user_age < min_age
                    THEN min_age - user_age
                    ELSE IF max_age # None /\ user_age > max_age
                    THEN user_age - max_age
                    ELSE 0
        age_str == <<user_age, AgeOr(min_age), AgeOr(max_age)>>
    IN  IF min_age = None /\ max_age = None
        THEN IntField("age", 0, 0, Sentence("No age requirement"), 1)
        ELSE IF user_age <= 0
        THEN IntField("age", 0, weight, Sentence("User age not provided"), 0)
        ELSE IF in_range
        THEN IF sc.enable_gradient /\ min_age # None /\ max_age # None
             THEN IF range_span > 0
                  THEN Field("age",
                             AgeInRangeEarned(user_age, min_age, max_age,
                                              weight),
                             weight,
                             PercentDetail("in range", <<>>,
                                           <<user_age, min_age, max_age>>,
                                           {},
                                           AgeInRangeGradient(
                                               user_age, min_age, max_age)),
                             AgeInRangeGradient(user_age, min_age, max_age))
                  ELSE IntField("age", weight, weight,
                                Detail("matches exact requirement", <<>>,
                                       <<user_age, min_age>>, {}),
                                1)
             ELSE IntField("age", weight, weight,
                           Detail("within range", <<>>, age_str, {}), 1)
        ELSE IF sc.enable_gradient /\ distance <= AGE_TOLERANCE
        THEN Field("age", AgeNearEarned(distance, weight), weight,
                   PercentDetail("years outside range", <<>>,
                                 <<user_age, distance>>, {},
                                 AgeNearGradient(distance)),
                   AgeNearGradient(distance))
        ELSE IntField("age", 0, weight,
                      Detail("outside range", <<>>, age_str, {}), 0)

\* ScoringEngine._score_gender
_score_gender(user, elig, sc) ==
    LET gender_req == elig.gender
        weight == sc.WEIGHTS.gender
        user_gender == Strip(Lower(user.gender))
    IN  IF gender_req = "all"
        THEN IntField("gender", 0, 0, Sentence("Open to all genders"), 1)
        ELSE IF user_gender = ""
        THEN IntField("gender", 0, weight,
                      Sentence("User gender not provided"), 0)
        ELSE IF user_gender = Lower(gender_req)
        THEN IntField("gender", weight, weight,
                      Detail("matches requirement",
                             <<user_gender, gender_req>>, <<>>, {}),
                      1)
        ELSE IntField("gender", 0, weight,
                      Detail("doesn't match", <<user_gender, gender_req>>,
                             <<>>, {}),
                      0)

\* ScoringEngine._score_state
_score_state(user, elig, sc) ==
    LET states == elig.states
        weight == sc.WEIGHTS.state
        user_state == Strip(user.state)
        proximity_score == _check_state_proximity(user_state, states)
    IN  IF states = ALL
        THEN IntField("state", weight, weight,
                      Sentence("Available across all states"), 1)
        ELSE IF user_state = ""
        THEN IntField("state", 0, weight,
                      Sentence("User state not provided"), 0)
        ELSE IF user_state \in Items(states)
        THEN IntField("state", weight, weight,
                      Detail("is eligible", <<user_state>>, <<>>, {}), 1)
        ELSE IF sc.enable_gradient /\ proximity_score > 0
        THEN PctField("state", weight, proximity_score,
                      PercentDetail("neighboring state is eligible",
                                    <<user_state>>, <<>>, {},
                                    Pct(proximity_score)))
        ELSE \* ', '.join(eligible_states[:5]), and '...' after more than five
             IntField("state", 0, weight,
                      Detail("not in eligible list",
                             <<user_state,
                               IF Len(states) > 5 THEN "..." ELSE "">>,
                             <<>>, SubSeq(states, 1, Min(5, Len(states)))),
                      0)

\* ScoringEngine._score_category
_score_category(user, elig, sc) ==
    LET categories == elig.category
        weight == sc.WEIGHTS.category
        user_cat == Strip(Lower(user.category))
        eligible_cats == LowerAll(categories)
        related_score == _check_category_relation(user_cat, eligible_cats)
    IN  IF categories = {}
        THEN IntField("category", 0, 0, Sentence("No category restriction"),
                      1)
        ELSE IF user_cat = ""
        THEN IntField("category", 0, weight,
                      Sentence("User category not provided"), 0)
        ELSE IF user_cat \in eligible_cats
        THEN IntField("category", weight, weight,
                      Detail("is eligible", <<Upper(user_cat)>>, <<>>, {}), 1)
        ELSE IF sc.enable_gradient /\ related_score > 0
        THEN PctField("category", weight, related_score,
                      PercentDetail("related category is eligible",
                                    <<Upper(user_cat)>>, <<>>, {},
                                    Pct(related_score)))
        ELSE IntField("category", 0, weight,
                      Detail("not in", <<Upper(user_cat)>>, <<>>,
                             {Upper(c) : c \in eligible_cats}),
                      0)

\* ScoringEngine._score_income raises ZeroDivisionError for a positive
\* income against max_income = 0 (overshoot = (income - 0) / 0)
IncomeRaises(user, elig, sc) ==
    /\ elig.max_income = 0
    /\ _safe_int(user.annual_income) > 0
    /\ sc.enable_gradient

\* _score_income without the gradient: all or nothing at the limit
_score_income_pass_fail(user, elig, sc) ==
    LET max_income == elig.max_income
        weight == sc.WEIGHTS.income
        user_income == _safe_int(user.annual_income)
    IN  IF max_income = None
        THEN IntField("income", 0, 0, Sentence("No income restriction"), 1)
        ELSE IF user_income <= 0
        THEN IntField("income", 0, weight,
                      Sentence("User income not provided"), 0)
        ELSE IF user_income <= max_income
        THEN IntField("income", weight, weight,
                      Detail("within limit", <<>>,
                             <<user_income, max_income>>, {}),
                      1)
        ELSE IntField("income", 0, weight,
                      Detail("exceeds limit", <<>>,
                             <<user_income, max_income>>, {}),
                      0)

\* ScoringEngine._score_income
_score_income(user, elig, sc) ==
    LET max_income == elig.max_income
        weight == sc.WEIGHTS.income
        user_income == _safe_int(user.annual_income)
        ratio == Div(Num(user_income), Num(max_income))
        overshoot == Div(Num(user_income - max_income), Num(max_income))
        \* the limits 0.5 and 0.8 that ratio is within, in tenths
        within == {limit \in {5, 8} : AtMost(ratio, Lit(limit, 10))}
        \* ratio <= 0.5, ratio <= 0.8
        pct == IF 5 \in within THEN 100
               ELSE IF 8 \in within THEN 95
               ELSE 85
        note == IF pct = 100 THEN "well within"
                ELSE IF pct = 95 THEN "comfortably within"
                ELSE "close to"
    IN  IF max_income = None
        THEN IntField("income", 0, 0, Sentence("No income restriction"), 1)
        ELSE IF user_income <= 0
        THEN IntField("income", 0, weight,
                      Sentence("User income not provided"), 0)
        ELSE IF user_income <= max_income
        THEN IF sc.enable_gradient /\ max_income > 0
             THEN PctField("income", weight, pct,
                           PercentDetail("is note limit", <<note>>,
                                         <<user_income, max_income>>, {},
                                         ratio))
             ELSE IntField("income", weight, weight,
                           Detail("within limit", <<>>,
                                  <<user_income, max_income>>, {}),
                           1)
        ELSE \* overshoot <= 0.1
             IF sc.enable_gradient /\ max_income # 0
                /\ AtMost(overshoot, Lit(1, 10))
             THEN PctField("income", weight, 30,
                           PercentDetail("slightly exceeds limit", <<>>,
                                         <<user_income, max_income>>, {},
                                         overshoot))
             ELSE IntField("income", 0, weight,
                           Detail("exceeds limit", <<>>,
                                  <<user_income, max_income>>, {}),
                           0)

\* ScoringEngine._score_occupation
_score_occupation(user, elig, sc) ==
    LET occupations == elig.occupation
        weight == sc.WEIGHTS.occupation
        user_occ == Strip(Lower(user.occupation))
        eligible_occs == LowerAll(occupations)
        related_score == _check_occupation_relation(user_occ, eligible_occs)
        titles == {Title(o) : o \in eligible_occs}
    IN  IF occupations = {}
        THEN IntField("occupation", 0, 0,
                      Sentence("No occupation restriction"), 1)
        ELSE IF user_occ = ""
        THEN IntField("occupation", 0, weight,
                      Sentence("User occupation not provided"), 0)
        ELSE IF user_occ \in eligible_occs
        THEN IntField("occupation", weight, weight,
                      Detail("matches", <<user_occ>>, <<>>, {}), 1)
        ELSE IF sc.enable_gradient /\ related_score > 0
        THEN PctField("occupation", weight, related_score,
                      PercentDetail("related to eligible", <<user_occ>>,
                                    <<>>, titles, Pct(related_score)))
        ELSE IntField("occupation", 0, weight,
                      Detail("not in", <<user_occ>>, <<>>, titles), 0)

\* the flags list of ScoringEngine._score_special_flags, in its order
FlagOrder == <<"is_bpl", "is_farmer", "is_student", "disability">>

\* the flags list of ScoringEngine._score_special_flags
SpecialFlags == {FlagOrder[i] : i \in DOMAIN FlagOrder}

\* flag_details: one entry for every flag the rule sets, in the order of the
\* flags list, with the user's value and the required one
RECURSIVE FlagDetails(_, _, _)
FlagDetails(user, elig, flags) ==
    IF flags = <<>> THEN <<>>
    ELSE (IF Unset(elig[Head(flags)]) THEN <<>>
          ELSE << [flag |-> Head(flags),
                   matches |-> UserFlag(user[Head(flags)]) = elig[Head(flags)],
                   you |-> UserFlag(user[Head(flags)]),
                   required |-> elig[Head(flags)]] >>)
         \o FlagDetails(user, elig, Tail(flags))

\* ScoringEngine._score_special_flags: every flag the rule sets adds the
\* weight to the applicable total, every matching one to the earned total
_score_special_flags(user, elig, sc) ==
    LET weight == sc.WEIGHTS.special
        setFlags == {f \in SpecialFlags : ~Unset(elig[f])}
        matching == {f \in setFlags : UserFlag(user[f]) = elig[f]}
        total_flag_applicable == weight * Cardinality(setFlags)
        total_flag_score == weight * Cardinality(matching)
    IN  IF total_flag_applicable = 0
        THEN IntField("special_flags", 0, 0,
                      Sentence("No special flag requirements"), 1)
        ELSE Field("special_flags", Num(total_flag_score),
                   total_flag_applicable,
                   [Sentence("flag_details") EXCEPT
                       !.flags = FlagDetails(user, elig, FlagOrder)],
                   Div(Num(total_flag_score), Num(total_flag_applicable)))

\* the add_field calls of the seven field scorers of
\* calculate_detailed_score, in order
FieldScores(user, elig, sc) ==
    << _score_age(user, elig, sc),
       _score_gender(user, elig, sc),
       _score_state(user, elig, sc),
       _score_category(user, elig, sc),
       _score_income(user, elig, sc),
       _score_occupation(user, elig, sc),
       _score_special_flags(user, elig, sc) >>

\* sum(...) over a list of integers
RECURSIVE SumInts(_)
SumInts(seq) ==
    IF seq = <<>> THEN 0 ELSE Head(seq) + SumInts(Tail(seq))

\* b['points'] of a bonus, a penalty or an adjustment
Points(b) == b.points

\* sum(b['points'] for b in seq)
SumPoints(seq) == SumInts([i \in DOMAIN seq |-> Points(seq[i])])

\* f['gradient'] >= 0.8 on the 'gradient' entry stored by add_field
GradientMatched(f) == ~FLess(f.gradient, FVal(Lit(8, 10)))

\* fields with applicable > 0, over field_scores.values()
ApplicableCount(fs) ==
    Cardinality({n \in DOMAIN fs : fs[n].applicable > 0})

\* ScoreBreakdown.__init__: field_scores is the empty dict
ScoreBreakdown ==
    [field_scores |-> <<>>, total_earned |-> FZero, total_applicable |-> 0,
     final_score |-> 0, confidence |-> 0, bonuses |-> <<>>,
     penalties |-> <<>>]

\* what add_field computes for its entry, as arithmetic expressions:
\* round(earned, 2), the percentage round((earned / applicable) * 100, 1) or
\* 0 when nothing is applicable, round(gradient, 2), and the percentage the
\* detail text ends with, if any
EntryTerms(earned, applicable, detail, gradient) ==
    << Rounded(earned, 2),
       IF applicable > 0
       THEN Rounded(Mul(Div(earned, Num(applicable)), Num(100)), 1)
       ELSE Num(0),
       Rounded(gradient, 2),
       IF detail.percent = <<>> THEN Num(0)
       ELSE Percent(detail.percent[1]) >>

\* the detail text as formatted by the caller of add_field, v[4] the float
\* its percentage prints
Formatted(detail, v) ==
    IF detail.percent = <<>> THEN detail
    ELSE [detail EXCEPT !.nums = Append(@, PyRound(v[4])),
                        !.percent = <<>>]

\* the entry with the values v of EntryTerms
Entry(applicable, detail, v) ==
    [earned |-> v[1], applicable |-> applicable, percentage |-> v[2],
     detail |-> Formatted(detail, v), gradient |-> v[3]]

\* the entry add_field stores under the field name
FieldEntry(earned, applicable, detail, gradient) ==
    Entry(applicable, detail,
          Values(EntryTerms(Val(earned), applicable, detail, Val(gradient))))

\* the entry add_field stores for the call field
EntryOf(field) ==
    Entry(field.applicable, field.detail,
          Values(EntryTerms(field.earned, field.applicable, field.detail,
                            field.gradient)))

\* the breakdown with the entry of values v under field_name and v[5] as
\* the total earned
Added(breakdown, field_name, applicable, detail, v) ==
    [breakdown EXCEPT
        !.field_scores =
            (field_name :> Entry(applicable, detail, v))
            @@ breakdown.field_scores,
        !.total_earned = v[5],
        !.total_applicable = @ + applicable]

\* ScoreBreakdown.add_field: field_scores is a dict keyed by field name, so
\* a second entry under one name replaces the first, while both are summed
add_field(breakdown, field_name, earned, applicable, detail, gradient) ==
    Added(breakdown, field_name, applicable, detail,
          Values(Append(EntryTerms(Val(earned), applicable, detail,
                                   Val(gradient)),
                        Add(Val(breakdown.total_earned), Val(earned)))))

\* the add_field call with the values v of the call's earned and gradient
AddField(breakdown, field, v) ==
    add_field(breakdown, field.name, v[1], field.applicable, field.detail,
              v[2])

\* the add_field calls, made in order
RECURSIVE AddFields(_, _)

\* the remaining calls, once the breakdown of the calls before them is known
AddRest(breakdown, calls) ==
    IF breakdown.total_applicable >= 0 THEN AddFields(breakdown, calls)
    ELSE breakdown

AddFields(breakdown, calls) ==
    IF calls = <<>> THEN breakdown
    ELSE AddRest(AddField(breakdown, Head(calls),
                          Values(<<Head(calls).earned,
                                   Head(calls).gradient>>)),
                 Tail(calls))

\* the bonuses ScoringEngine._apply_bonuses adds, as a list of (name, points)
Bonuses(user, elig, fs) ==
    LET applicable_fields == ApplicableCount(fs)
        matched_fields ==
            Cardinality({i \in DOMAIN fs :
                            fs[i].applicable > 0 /\ GradientMatched(fs[i])})
        user_bpl == _parse_bool(user.is_bpl)
        user_disability == _parse_bool(user.disability)
        user_age == _safe_int(user.age)
        user_cat == Lower(user.category)
        elig_cats == elig.category
    IN  (IF applicable_fields >= 3 /\ matched_fields = applicable_fields
         THEN << [name |-> "perfect_alignment", points |-> 3] >> ELSE <<>>)
        \o
        (IF user_bpl /\ user_disability
         THEN << [name |-> "vulnerable_priority", points |-> 3] >>
         ELSE IF user_bpl
         THEN << [name |-> "bpl_priority", points |-> 1] >>
         ELSE <<>>)
        \o
        (IF user_age >= SENIOR_AGE
         THEN << [name |-> "senior_citizen", points |-> 1] >> ELSE <<>>)
        \o
        (IF elig_cats # {} /\ user_cat # "" /\ Cardinality(elig_cats) <= 2
            /\ user_cat \in LowerAll(elig_cats)
         THEN << [name |-> "targeted_scheme", points |-> 2] >> ELSE <<>>)

\* ScoringEngine._apply_bonuses
_apply_bonuses(user, elig, breakdown) ==
    [breakdown EXCEPT
        !.bonuses = Bonuses(user, elig, breakdown.field_scores)]

\* the key_fields of _apply_penalties that the profile provides
ProvidedKeyFields(user) ==
    (IF user.age # None /\ user.age # 0 THEN {"age"} ELSE {})
    \cup (IF user.gender # "" THEN {"gender"} ELSE {})
    \cup (IF user.state # "" THEN {"state"} ELSE {})
    \cup (IF user.category # "" THEN {"category"} ELSE {})
    \cup (IF user.annual_income # None /\ user.annual_income # 0
          THEN {"annual_income"} ELSE {})
    \cup (IF user.occupation # "" THEN {"occupation"} ELSE {})

\* ScoringEngine._apply_penalties
_apply_penalties(user, elig, breakdown) ==
    [breakdown EXCEPT
        !.penalties = IF Cardinality(ProvidedKeyFields(user)) <= 2
                      THEN << [name |-> "sparse_profile", points |-> 3] >>
                      ELSE <<>>]

\* max(0, min(x, 100))
Clamp(x) == Max(0, Min(x, 100))

\* the confidence of calculate_final:
\* round((applicable_fields / max(total_fields, 1)) * 100), total_fields
\* being len(field_scores), or 1 for an empty field_scores
Confidence(fs) ==
    PyRound(FVal(Mul(Div(Num(ApplicableCount(fs)),
                         Num(Max(Cardinality(DOMAIN fs), 1))),
                     Num(100))))

\* calculate_final taking its neutral branch whatever was applicable
calculate_final_neutral(breakdown) ==
    [breakdown EXCEPT !.final_score = NEUTRAL_SCORE, !.confidence = 0]

\* ScoreBreakdown.calculate_final: the breakdown with final_score and
\* confidence set.  adjusted = base + bonus_total - penalty_total with
\* base = (total_earned / total_applicable) * 100; int(adjusted) of a
\* negative adjusted is at most 0.
calculate_final(breakdown) ==
    IF breakdown.total_applicable = 0
    THEN [breakdown EXCEPT !.final_score = NEUTRAL_SCORE, !.confidence = 0]
    ELSE [breakdown EXCEPT
            !.final_score =
                Clamp(FTrunc(FVal(
                    Monus(Add(Mul(Div(Val(breakdown.total_earned),
                                      Num(breakdown.total_applicable)),
                                  Num(100)),
                              Num(SumPoints(breakdown.bonuses))),
                          Num(SumPoints(breakdown.penalties)))))),
            \* round((applicable_fields / total_fields) * 100)
            !.confidence =
                Confidence(breakdown.field_scores)]

\* ScoringEngine.calculate_detailed_score: the ScoreBreakdown it returns
calculate_detailed_score(user, elig, sc) ==
    calculate_final(
        _apply_penalties(user, elig,
            _apply_bonuses(user, elig,
                AddFields(ScoreBreakdown, FieldScores(user, elig, sc)))))

\* ScoringEngine.calculate_score
calculate_score(user, elig, sc) ==
    calculate_detailed_score(user, elig, sc).final_score

\* ------------------------------------------------------------------------
\* Matching engine (src/backend/matching_engine.py): filtering tiers
\* ------------------------------------------------------------------------

\* FilterReason
STATE_MISMATCH == "state_mismatch"
GENDER_MISMATCH == "gender_mismatch"
AGE_TOO_YOUNG == "age_too_young"
AGE_TOO_OLD == "age_too_old"
INCOME_TOO_HIGH == "income_too_high"
BPL_REQUIRED == "bpl_required"
LOW_SCORE == "low_score"

FilterReasons ==
    {STATE_MISMATCH, GENDER_MISMATCH, AGE_TOO_YOUNG, AGE_TOO_OLD,
     INCOME_TOO_HIGH, BPL_REQUIRED, LOW_SCORE}

\* _pass_hard_filters without the income check
_pass_hard_filters_no_income(user, eligibility) ==
    LET states == eligibility.states
        gender_req == eligibility.gender
        user_gender == Lower(user.gender)
        user_age == _safe_int(user.age)
        min_age == eligibility.min_age
        max_age == eligibility.max_age
    IN  IF states # ALL /\ user.state \notin Items(states)
        THEN [passed |-> FALSE, reason |-> STATE_MISMATCH]
        ELSE IF gender_req # "all" /\ user_gender # ""
                /\ user_gender # Lower(gender_req)
        THEN [passed |-> FALSE, reason |-> GENDER_MISMATCH]
        ELSE IF min_age # None /\ user_age < min_age
        THEN [passed |-> FALSE, reason |-> AGE_TOO_YOUNG]
        ELSE IF max_age # None /\ user_age > max_age
        THEN [passed |-> FALSE, reason |-> AGE_TOO_OLD]
        ELSE IF eligibility.is_bpl = True /\ ~Truthy(user.is_bpl)
        THEN [passed |-> FALSE, reason |-> BPL_REQUIRED]
        ELSE [passed |-> TRUE, reason |-> Nil]

\* _pass_hard_filters with the gender check moved before the state check
_pass_hard_filters_gender_first(user, eligibility) ==
    LET states == eligibility.states
        gender_req == eligibility.gender
        user_gender == Lower(user.gender)
        user_age == _safe_int(user.age)
        min_age == eligibility.min_age
        max_age == eligibility.max_age
        max_income == eligibility.max_income
        user_income == _safe_int(user.annual_income)
    IN  IF gender_req # "all" /\ user_gender # ""
           /\ user_gender # Lower(gender_req)
        THEN [passed |-> FALSE, reason |-> GENDER_MISMATCH]
        ELSE IF states # ALL /\ user.state \notin Items(states)
        THEN [passed |-> FALSE, reason |-> STATE_MISMATCH]
        ELSE IF min_age # None /\ user_age < min_age
        THEN [passed |-> FALSE, reason |-> AGE_TOO_YOUNG]
        ELSE IF max_age # None /\ user_age > max_age
        THEN [passed |-> FALSE, reason |-> AGE_TOO_OLD]
        ELSE IF max_income # None /\ user_income > 0
                /\ user_income > max_income
        THEN [passed |-> FALSE, reason |-> INCOME_TOO_HIGH]
        ELSE IF eligibility.is_bpl = True /\ ~Truthy(user.is_bpl)
        THEN [passed |-> FALSE, reason |-> BPL_REQUIRED]
        ELSE [passed |-> TRUE, reason |-> Nil]

\* MatchingEngine._pass_hard_filters: (passed, reason)
_pass_hard_filters(user, eligibility) ==
    LET states == eligibility.states
        user_state == user.state
        gender_req == eligibility.gender
        user_gender == Lower(user.gender)
        user_age == _safe_int(user.age)
        min_age == eligibility.min_age
        max_age == eligibility.max_age
        max_income == eligibility.max_income
        user_income == _safe_int(user.annual_income)
    IN  IF states # ALL /\ user_state \notin Items(states)
        THEN [passed |-> FALSE, reason |-> STATE_MISMATCH]
        ELSE IF gender_req # "all" /\ user_gender # ""
                /\ user_gender # Lower(gender_req)
        THEN [passed |-> FALSE, reason |-> GENDER_MISMATCH]
        ELSE IF min_age # None /\ user_age < min_age
        THEN [passed |-> FALSE, reason |-> AGE_TOO_YOUNG]
        ELSE IF max_age # None /\ user_age > max_age
        THEN [passed |-> FALSE, reason |-> AGE_TOO_OLD]
        ELSE IF max_income # None /\ user_income > 0
                /\ user_income > max_income
        THEN [passed |-> FALSE, reason |-> INCOME_TOO_HIGH]
        ELSE IF eligibility.is_bpl = True /\ ~Truthy(user.is_bpl)
        THEN [passed |-> FALSE, reason |-> BPL_REQUIRED]
        ELSE [passed |-> TRUE, reason |-> Nil]

\* one entry of the adjustments list: "+5 BPL priority" is (5, "BPL priority")
Adjustment(points, label) == [points |-> points, label |-> label]

\* x if cond else nothing, as a list
When(cond, x) == IF cond THEN <<x>> ELSE <<>>

\* MatchingEngine._apply_adjustments: (adjusted_score, adjustments)
_apply_adjustments(base_score, user, scheme, eligibility) ==
    LET user_age == _safe_int(user.age)
        elig_occupations == eligibility.occupation
        user_occupation == Lower(user.occupation)
        elig_categories == eligibility.category
        user_category == Lower(user.category)
        adjustments ==
            When(Truthy(user.is_bpl) /\ eligibility.is_bpl = True,
                 Adjustment(BOOST_BPL, "BPL priority"))
            \o When(Truthy(user.disability),
                    Adjustment(BOOST_DISABILITY, "disability priority"))
            \o When(user_age >= SENIOR_AGE,
                    Adjustment(BOOST_SENIOR_CITIZEN, "senior citizen"))
            \o When(eligibility.gender = "female"
                    /\ Lower(user.gender) = "female",
                    Adjustment(BOOST_WOMEN, "women-specific scheme"))
            \o When(elig_occupations # {} /\ user_occupation # ""
                    /\ user_occupation \in LowerAll(elig_occupations),
                    Adjustment(BOOST_EXACT_OCCUPATION,
                               "exact occupation match"))
            \o When(elig_categories # {} /\ user_category # ""
                    /\ user_category \in LowerAll(elig_categories),
                    Adjustment(BOOST_EXACT_CATEGORY, "exact category match"))
            \o When(scheme.url = "",
                    Adjustment(0 - PENALTY_NO_URL, "no official URL"))
            \o When(scheme.description = "",
                    Adjustment(0 - PENALTY_NO_DESCRIPTION, "no description"))
    IN  [adjusted |-> base_score + SumPoints(adjustments),
         adjustments |-> adjustments]

\* _calculate_tier with the moderate test made before the strong test
_calculate_tier_misordered(score) ==
    IF score >= PERFECT_MATCH_THRESHOLD THEN "perfect"
    ELSE IF score >= MODERATE_MATCH_THRESHOLD THEN "moderate"
    ELSE IF score >= STRONG_MATCH_THRESHOLD THEN "strong"
    ELSE "partial"

\* MatchResult._calculate_tier
_calculate_tier(score) ==
    IF score >= PERFECT_MATCH_THRESHOLD THEN "perfect"
    ELSE IF score >= STRONG_MATCH_THRESHOLD THEN "strong"
    ELSE IF score >= MODERATE_MATCH_THRESHOLD THEN "moderate"
    ELSE "partial"

\* one human-readable reason: its template, the string and the numbers
\* formatted into it
Reason(kind, text, nums) == [kind |-> kind, text |-> text, nums |-> nums]

\* "x or 'any'" of the age range text
OrAny(x) == IF x = None \/ x = 0 THEN None ELSE x

\* MatchingEngine._build_match_reasons
_build_match_reasons(user, eligibility, score, adjustments) ==
    LET states == eligibility.states
        user_state == user.state
        min_age == eligibility.min_age
        max_age == eligibility.max_age
        user_age == _safe_int(user.age)
        gender_req == eligibility.gender
        max_income == eligibility.max_income
        user_income == _safe_int(user.annual_income)
        elig_categories == eligibility.category
        user_cat == Upper(user.category)
        elig_occupations == eligibility.occupation
        user_occ == Title(user.occupation)
    IN  (IF states = ALL THEN <<Reason("all_states", "", <<>>)>>
         ELSE When(user_state \in Items(states), Reason("state", user_state, <<>>)))
        \o When(OrAny(min_age) # None \/ OrAny(max_age) # None,
                Reason("age", "",
                       <<user_age, OrAny(min_age), OrAny(max_age)>>))
        \o (IF gender_req = "all" THEN <<Reason("all_genders", "", <<>>)>>
            ELSE <<Reason("designed_for", gender_req, <<>>)>>)
        \o When(OrAny(max_income) # None /\ user_income <= max_income,
                Reason("income", "", <<user_income, max_income>>))
        \o When(elig_categories # {}
                /\ Lower(user_cat) \in LowerAll(elig_categories),
                Reason("category", user_cat, <<>>))
        \o When(elig_occupations # {}
                /\ Lower(user_occ) \in LowerAll(elig_occupations),
                Reason("occupation", user_occ, <<>>))
        \o When(eligibility.is_bpl = True /\ Truthy(user.is_bpl),
                Reason("bpl", "", <<>>))
        \o [i \in DOMAIN adjustments |->
               Reason("adjustment", adjustments[i].label,
                      <<adjustments[i].points>>)]
        \o <<Reason(IF score >= PERFECT_MATCH_THRESHOLD THEN "Perfect match"
                     ELSE IF score >= STRONG_MATCH_THRESHOLD
                     THEN "Strong match"
                     ELSE IF score >= MODERATE_MATCH_THRESHOLD
                     THEN "Moderate match"
                     ELSE "Partial match",
                     "", <<score>>)>>

\* ------------------------------------------------------------------------
\* Matching engine: ranking and result construction
\* ------------------------------------------------------------------------

\* dict(d) followed by d.update(e)
Merge(d, e) ==
    [k \in DOMAIN d \cup DOMAIN e |-> IF k \in DOMAIN e THEN e[k] ELSE d[k]]

\* MatchResult.__init__
MatchResult(scheme, score, reasons) ==
    [scheme |-> scheme, score |-> score, reasons |-> reasons,
     tier |-> _calculate_tier(score)]

\* MatchResult.to_dict: a deep copy of the scheme with the match fields added
to_dict(r) ==
    Merge(r.scheme, [match_score |-> r.score, match_tier |-> r.tier,
                     match_reasons |-> r.reasons])

\* tier_order of find_matches
tier_order(tier) ==
    CASE tier = "perfect" -> 0
      [] tier = "strong" -> 1
      [] tier = "moderate" -> 2
      [] tier = "partial" -> 3
      [] OTHER -> 4

\* tuple comparison of two sort keys of equal length
RECURSIVE KeyLess(_, _)
KeyLess(a, b) ==
    IF a = <<>> THEN FALSE
    ELSE IF Head(a) # Head(b) THEN Head(a) < Head(b)
    ELSE KeyLess(Tail(a), Tail(b))

\* seq without its i-th element
Remove(seq, i) == SubSeq(seq, 1, i - 1) \o SubSeq(seq, i + 1, Len(seq))

\* list.sort(key=...): stable, ascending in the keys; keys[i] is the key of
\* items[i]
RECURSIVE StableSort(_, _)
StableSort(items, keys) ==
    IF items = <<>> THEN <<>>
    ELSE LET i == CHOOSE i \in DOMAIN items :
                      /\ \A j \in DOMAIN items : ~KeyLess(keys[j], keys[i])
                      /\ \A j \in 1..(i - 1) : KeyLess(keys[i], keys[j])
         IN  <<items[i]>> \o StableSort(Remove(items, i), Remove(keys, i))

\* seq[:n]
Take(seq, n) == SubSeq(seq, 1, Min(n, Len(seq)))

\* truthiness of an optional string argument (None and '' are falsy)
NonEmpty(value) == value # Nil /\ value # ""

\* MatchingEngine._pre_filter
_pre_filter(all_schemes, category_filter, type_filter) ==
    LET by_category ==
            IF NonEmpty(category_filter)
            THEN SelectSeq(all_schemes,
                           LAMBDA s : Lower(s.category) = Lower(category_filter))
            ELSE all_schemes
    IN  IF NonEmpty(type_filter)
        THEN SelectSeq(by_category,
                       LAMBDA s : Lower(s.type) = Lower(type_filter))
        ELSE by_category

\* MatchingEngine._build_cache_key: the key parts, in order.  The nine profile
\* fields are every field of PROFILE_FIELDS; an absent filter adds no part.
_build_cache_key(profile, category, type_filter) ==
    [i \in DOMAIN PROFILE_FIELDS |->
        <<PROFILE_FIELDS[i], profile[PROFILE_FIELDS[i]]>>]
    \o When(NonEmpty(category), <<"cat", category>>)
    \o When(NonEmpty(type_filter), <<"type", type_filter>>)

\* the None returned by _find_scheme, as a record
NoScheme == [id |-> Nil]

\* MatchingEngine._find_scheme: the first scheme with the id, or None
_find_scheme(all_schemes, scheme_id) ==
    LET found == SelectSeq(all_schemes, LAMBDA s : s.id = scheme_id)
    IN  IF found = <<>> THEN NoScheme ELSE Head(found)

\* ------------------------------------------------------------------------
\* Inputs of the model
\* ------------------------------------------------------------------------

\* a profile dict; absent keys as described at the top
Profile(age, gender, state, category, annual_income, occupation, is_bpl, is_farmer, is_student, disability) ==
    [age |-> age, gender |-> gender, state |-> state, category |-> category,
     annual_income |-> annual_income, occupation |-> occupation,
     is_bpl |-> is_bpl, is_farmer |-> is_farmer, is_student |-> is_student,
     disability |-> disability]

\* an eligibility dict with every field unset
EmptyRule ==
    [min_age |-> None, max_age |-> None, gender |-> "all", states |-> ALL,
     category |-> {}, max_income |-> None, occupation |-> {},
     is_bpl |-> NoFlag, is_farmer |-> NoFlag, is_student |-> NoFlag,
     disability |-> NoFlag]

\* a scheme dict
Scheme(id, category, type, url, description, eligibility) ==
    [id |-> id, name |-> id, category |-> category, type |-> type,
     url |-> url, description |-> description, eligibility |-> eligibility]

\* ------------------------------------------------------------------------
\* The scheme catalogs and the profiles the engine is exercised with
\* ------------------------------------------------------------------------

Rule_kisan ==
    [EmptyRule EXCEPT !.occupation = {"farmer"}, !.max_income = 100,
                      !.is_farmer = True, !.states = <<"Bihar", "Kerala">>]
Rule_bihar_health ==
    [EmptyRule EXCEPT !.states = <<"Bihar">>, !.is_bpl = True]
Rule_women ==
    [EmptyRule EXCEPT !.gender = "female", !.min_age = 18, !.max_age = 40,
                      !.category = {"sc", "st"}]
Rule_pension ==
    [EmptyRule EXCEPT !.min_age = 60, !.max_income = 100]
Rule_scholarship ==
    [EmptyRule EXCEPT !.is_student = True, !.max_age = 35,
                      !.occupation = {"farmer"}, !.category = {"general"}]

\* the catalog the engine is constructed with
Catalog ==
    <<Scheme("kisan", "agriculture", "central", "u", "d", Rule_kisan),
      Scheme("bihar_health", "health", "state", "", "d", Rule_bihar_health),
      Scheme("women", "health", "central", "u", "d", Rule_women),
      Scheme("pension", "pension", "central", "u", "d", Rule_pension),
      Scheme("scholarship", "education", "central", "u", "",
             Rule_scholarship),
      Scheme("open", "health", "central", "", "", EmptyRule)>>

\* a later revision of the catalog, passed to update_schemes
Catalog2 ==
    <<Scheme("pension", "pension", "central", "u", "d",
             [Rule_pension EXCEPT !.max_income = 200]),
      Scheme("women", "health", "central", "u", "d", Rule_women)>>

Catalogs == {Catalog, Catalog2}

SchemeIds == {"kisan", "pension", "unknown"}

PA == Profile(30, "female", "Bihar", "obc", 90, "student",
              True, NoFlag, NoFlag, NoFlag)
\* PA with is_student set: the two agree on every field of PROFILE_FIELDS
PB == [PA EXCEPT !.is_student = True]
\* income 105 against the limit 100 of pension and kisan
PC == Profile(65, "male", "Kerala", "general", 105, "",
              NoFlag, NoFlag, NoFlag, True)
EngineProfiles == {PA, PB, PC}
\* a woman of Kerala whom the women scheme of Catalog2 matches with a score
\* between the default floor of 30 and a floor of 80
PE == Profile(30, "female", "Kerala", "general", 90, "",
              NoFlag, NoFlag, NoFlag, NoFlag)
\* the profiles whose scores are tabulated
TableProfiles == EngineProfiles \cup {PE}

\* number of find_matches calls followed in one run of the engine
MaxMatchesRun == 2

MaxResultsArgs == {None, 1}
MinScoreArgs == {None, 80}
CategoryArgs == {Nil, "health"}
TypeArgs == {Nil}
SchemeIdLists ==
    {<<"unknown", "kisan", "women", "pension", "open">>}
NearMissArgs == {5, 1}
MaxPerCategoryArgs == {3, 1}
ProfileLists == {<<PA, PB>>, <<PB, PA>>, <<PC>>}
MaxResultsEachArgs == {10}

\* every eligibility rule of the catalogs
CatalogRules ==
    UNION {{cat[i].eligibility : i \in DOMAIN cat} : cat \in Catalogs}

\* ------------------------------------------------------------------------
\* State: one MatchingEngine, the last operation applied and what it returned
\* ------------------------------------------------------------------------

\* shared tells what the value last returned shares with the engine's own
\* objects (Python hands out references); inflight holds, for every caller,
\* how far its call has come when calls run concurrently.
\* answered is a record of the run, not a field of the program: the
\* find_matches calls answered since the last update_schemes or clear_cache,
\* each with the list it returned (kept where calls are recorded).
\* weight_profiles holds the dicts that are the class attributes of
\* WeightProfile, by attribute name; scorers holds the ScoringEngine
\* instances in order of construction, the first being engine.scorer.  The
\* WEIGHTS of an instance is a reference to one of those dicts.
VARIABLES schemes, _cache, _cache_hits, _cache_misses, _total_matches_run,
          _filter_stats, call, ret, shared, inflight, weight_profiles,
          scorers, answered

engine_vars == <<schemes, _cache, _cache_hits, _cache_misses,
                 _total_matches_run, _filter_stats>>
scoring_vars == <<weight_profiles, scorers>>
vars == <<schemes, _cache, _cache_hits, _cache_misses, _total_matches_run,
          _filter_stats, call, ret, shared, inflight, weight_profiles,
          scorers, answered>>

\* the class attributes of WeightProfile as the program starts
WeightProfile ==
    [BALANCED |-> BALANCED, LOCATION_PRIORITY |-> LOCATION_PRIORITY,
     ECONOMIC_PRIORITY |-> ECONOMIC_PRIORITY,
     DEMOGRAPHIC_PRIORITY |-> DEMOGRAPHIC_PRIORITY,
     OCCUPATION_PRIORITY |-> OCCUPATION_PRIORITY]

\* WeightProfile.get_profile(name): the class attribute whose dict is
\* returned, profiles.get(name.lower(), cls.BALANCED)
get_profile(name) ==
    CASE Lower(name) = "balanced" -> "BALANCED"
      [] Lower(name) = "location" -> "LOCATION_PRIORITY"
      [] Lower(name) = "economic" -> "ECONOMIC_PRIORITY"
      [] Lower(name) = "demographic" -> "DEMOGRAPHIC_PRIORITY"
      [] Lower(name) = "occupation" -> "OCCUPATION_PRIORITY"
      [] OTHER -> "BALANCED"

\* ScoringEngine.__init__: WEIGHTS is the dict get_profile returns, not a
\* copy of it
ScoringEngine(weight_profile, enable_gradient) ==
    [WEIGHTS |-> get_profile(weight_profile),
     profile_name |-> weight_profile, enable_gradient |-> enable_gradient]

\* the scorer object of an instance: its WEIGHTS read through the reference
ScorerOf(profiles, instance) ==
    [WEIGHTS |-> profiles[instance.WEIGHTS],
     enable_gradient |-> instance.enable_gradient]

\* self.scorer of the engine: the ScoringEngine() that
\* MatchingEngine.__init__ constructs, with the weights it holds now
EngineScorer == ScorerOf(weight_profiles, scorers[1])

\* ScoringEngine(): an instance constructed now, which reads the balanced
\* preset as it is now
FreshScorer == ScorerOf(weight_profiles, ScoringEngine("balanced", TRUE))

\* the new_weights arguments of change_weights, a dict as its set of
\* (field, weight) items; {} stands for None and for the empty dict
NewWeightsArgs == {{}, {<<"state", 50>>, <<"age", 5>>}}

\* dict.update(new) on a dict d whose keys include those of new
Update(d, new) ==
    [k \in DOMAIN d |->
        IF \E item \in new : item[1] = k
        THEN (CHOOSE item \in new : item[1] = k)[2]
        ELSE d[k]]

\* the weights the engine's scorer comes to hold: the balanced and the
\* economic preset, as shipped and after an update with new weights
TableWeights ==
    {BALANCED, ECONOMIC_PRIORITY}
    \cup {Update(d, new_weights) :
            d \in {BALANCED, ECONOMIC_PRIORITY},
            new_weights \in NewWeightsArgs}

\* the scorers holding those weights
TableScorers ==
    {[WEIGHTS |-> w, enable_gradient |-> TRUE] : w \in TableWeights}

\* calculate_score of those scorers on the profiles and rules above,
\* evaluated once: the score by scorer, profile and rule
ScoreTable ==
    [scorer \in TableScorers |->
        [user \in TableProfiles |->
            [rule \in CatalogRules |-> calculate_score(user, rule, scorer)]]]

\* ------------------------------------------------------------------------
\* Matching engine: one scheme through the three tiers
\* ------------------------------------------------------------------------

\* self.scorer.calculate_score of the engine's scorer, with the weights it
\* holds now: read from the table where the table has the score, computed
\* otherwise
scorer_calculate_score(user, eligibility) ==
    LET scorer == EngineScorer
    IN  IF /\ scorer \in TableScorers
           /\ user \in TableProfiles
           /\ eligibility \in CatalogRules
        THEN ScoreTable[scorer][user][eligibility]
        ELSE calculate_score(user, eligibility, scorer)

\* final_score = max(0, min(adjusted_score, 100)) of the adjusted score adj
Capped(base_score, adj) ==
    [base_score |-> base_score, adjustments |-> adj.adjustments,
     final_score |-> Max(0, Min(adj.adjusted, 100))]

\* tier 3 on the base score of tier 2
Adjusted(base_score, user, scheme) ==
    Capped(base_score,
           _apply_adjustments(base_score, user, scheme, scheme.eligibility))

\* tiers 2 and 3 of find_matches, compare_schemes and check_eligibility:
\* base score, adjustments and the capped final score
FinalScore(user, scheme) ==
    Adjusted(scorer_calculate_score(user, scheme.eligibility), user, scheme)

\* the loop body of find_matches for a scheme that passed the hard filters
\* and scored fs
Scored(user_profile, scheme, min_score, include_reasons, fs) ==
    IF fs.final_score < min_score
    THEN [rejected |-> LOW_SCORE, result |-> Nil]
    ELSE [rejected |-> Nil,
          result |->
              MatchResult(scheme, fs.final_score,
                          IF include_reasons
                          THEN _build_match_reasons(user_profile,
                                                    scheme.eligibility,
                                                    fs.final_score,
                                                    fs.adjustments)
                          ELSE <<>>)]

\* the body of the loop of find_matches for one candidate scheme: the
\* rejection reason, or the MatchResult appended to matched
LoopBody(user_profile, scheme, min_score, include_reasons) ==
    LET hard == _pass_hard_filters(user_profile, scheme.eligibility)
    IN  IF ~hard.passed
        THEN [rejected |-> hard.reason, result |-> Nil]
        ELSE Scored(user_profile, scheme, min_score, include_reasons,
                    FinalScore(user_profile, scheme))

\* the loop of find_matches over the candidates, in order
Loop(user_profile, candidate_schemes, min_score, include_reasons) ==
    [i \in DOMAIN candidate_schemes |->
        LoopBody(user_profile, candidate_schemes[i], min_score,
                 include_reasons)]

\* the list matched after the loop
Matched(outcomes) ==
    LET kept == SelectSeq(outcomes, LAMBDA o : o.rejected = Nil)
    IN  [i \in DOMAIN kept |-> kept[i].result]

\* self._filter_stats[reason] += 1 for every rejection of the loop
Tally(stats, outcomes) ==
    [reason \in DOMAIN stats |->
        stats[reason]
        + Cardinality({i \in DOMAIN outcomes : outcomes[i].rejected = reason})]

\* find_matches without the sort: matched truncated in catalog order
RankedUnsorted(matched, max_results) ==
    LET top == Take(matched, max_results)
    IN  [i \in DOMAIN top |-> to_dict(top[i])]

\* find_matches from the sort on: the ranked, truncated result_dicts
Ranked(matched, max_results) ==
    LET sorted == StableSort(matched,
                             [i \in DOMAIN matched |->
                                 <<0 - matched[i].score,
                                   tier_order(matched[i].tier)>>])
        top == Take(sorted, max_results)
    IN  [i \in DOMAIN top |-> to_dict(top[i])]

\* ------------------------------------------------------------------------
\* Matching engine: compare_schemes and check_eligibility
\* ------------------------------------------------------------------------

\* the entry of compare_schemes for a scheme that passed the hard filters
\* and scored fs
EligibleEntry(scheme, user_profile, fs) ==
    Merge(scheme,
          [match_score |-> fs.final_score, eligible |-> TRUE,
           match_tier |-> MatchResult(scheme, fs.final_score, <<>>).tier,
           match_reasons |->
               _build_match_reasons(user_profile, scheme.eligibility,
                                    fs.final_score, fs.adjustments),
           score_breakdown |->
               [base_score |-> fs.base_score,
                adjustments |-> fs.adjustments,
                final_score |-> fs.final_score]])

\* the entry of compare_schemes for the scheme _find_scheme returned
FoundEntry(scheme, user_profile, scheme_id) ==
    LET hard == _pass_hard_filters(user_profile, scheme.eligibility)
    IN  IF scheme = NoScheme
        THEN [scheme_id |-> scheme_id, found |-> FALSE,
              error |-> "Scheme not found"]
        ELSE IF ~hard.passed
        THEN Merge(scheme,
                   [match_score |-> 0, eligible |-> FALSE,
                    rejection_reason |-> hard.reason,
                    match_reasons |->
                        <<Reason("not_eligible", hard.reason, <<>>)>>])
        ELSE EligibleEntry(scheme, user_profile,
                           FinalScore(user_profile, scheme))

\* the entry compare_schemes appends for one scheme id
CompareEntry(all_schemes, user_profile, scheme_id) ==
    FoundEntry(_find_scheme(all_schemes, scheme_id), user_profile, scheme_id)

\* x.get('match_score', 0) on an entry of compare_schemes
MatchScoreOf(x) == IF "match_score" \in DOMAIN x THEN x.match_score ELSE 0

\* compare_schemes without the sort: the entries in the order of scheme_ids
AsAppended(results) == results

\* results.sort(key=lambda x: x.get('match_score', 0), reverse=True), stable
ByMatchScore(results) ==
    StableSort(results,
               [i \in DOMAIN results |-> <<0 - MatchScoreOf(results[i])>>])

\* MatchingEngine.compare_schemes
compare_schemes(all_schemes, user_profile, scheme_ids) ==
    ByMatchScore([i \in DOMAIN scheme_ids |->
                     CompareEntry(all_schemes, user_profile, scheme_ids[i])])

\* an entry of checks that reports "pass" whatever the comparison gave
CheckAlwaysPass(field, passes) ==
    [field |-> field, status |-> "pass"]

\* one entry of the checks list of check_eligibility
Check(field, passes) ==
    [field |-> field, status |-> IF passes THEN "pass" ELSE "fail"]

\* an entry of checks whose 'required' is a list of the rule itself: the
\* states list and the occupation list are handed out as they are, the
\* 'required' of the other checks is a string, a bool or a new list and,
\* like 'detail', is not carried
Requiring(check, list) ==
    [field |-> check.field, status |-> check.status, required |-> list]

\* the checks of a result of check_eligibility whose 'required' is a list of
\* the rule
RequiredLists(result) ==
    IF "checks" \in DOMAIN result
    THEN {result.checks[i].field :
             i \in {j \in DOMAIN result.checks :
                        "required" \in DOMAIN result.checks[j]}}
    ELSE {}

\* the checks of check_eligibility, in order
EligibilityChecks(user_profile, eligibility) ==
    LET user_age == _safe_int(user_profile.age)
        min_age == eligibility.min_age
        max_age == eligibility.max_age
        gender_req == eligibility.gender
        user_gender == Lower(user_profile.gender)
        states == eligibility.states
        max_income == eligibility.max_income
        user_income == _safe_int(user_profile.annual_income)
        elig_categories == eligibility.category
        user_cat == Lower(user_profile.category)
        elig_occupations == eligibility.occupation
        user_occ == Lower(user_profile.occupation)
    IN  <<Check("age", ~(min_age # None /\ user_age < min_age)
                       /\ ~(max_age # None /\ user_age > max_age)),
          Check("gender", gender_req = "all"
                          \/ user_gender = Lower(gender_req)),
          IF states = ALL
          THEN Check("state", TRUE)
          ELSE Requiring(Check("state", user_profile.state \in Items(states)),
                         states),
          Check("income", max_income = None \/ user_income <= max_income),
          Check("social_category",
                elig_categories = {}
                \/ user_cat \in LowerAll(elig_categories))>>
        \o When(elig_occupations # {},
                Requiring(Check("occupation",
                                user_occ \in LowerAll(elig_occupations)),
                          elig_occupations))
        \o When(~Unset(eligibility.is_bpl),
                Check("bpl_status",
                      UserFlag(user_profile.is_bpl) = eligibility.is_bpl))

\* "Highly recommended" from the literal score 75 on
Recommendation(is_eligible, score, failed_checks) ==
    IF is_eligible /\ score >= 75
    THEN Reason("Highly recommended", "", <<>>)
    ELSE IF is_eligible
    THEN Reason("You are eligible", "", <<>>)
    ELSE IF Len(failed_checks) = 1
    THEN Reason("Almost eligible", failed_checks[1].field, <<>>)
    ELSE Reason("Not eligible", "", <<Len(failed_checks)>>)

\* the result of check_eligibility from the checks and the score
EligibilityResult(scheme_id, scheme, checks, passed_checks, failed_checks, score) ==
    [scheme_id |-> scheme_id, scheme_name |-> scheme.name,
     eligible |-> Len(failed_checks) = 0, match_score |-> score,
     total_checks |-> Len(checks), passed |-> Len(passed_checks),
     failed |-> Len(failed_checks), checks |-> checks,
     recommendation |->
         Recommendation(Len(failed_checks) = 0, score, failed_checks)]

\* check_eligibility from the checks on: the score is computed (tiers 2 and
\* 3) only when no check failed
Checked(scheme_id, scheme, user_profile, checks) ==
    EligibilityResult(
        scheme_id, scheme, checks,
        SelectSeq(checks, LAMBDA c : c.status = "pass"),
        SelectSeq(checks, LAMBDA c : c.status = "fail"),
        IF \A i \in DOMAIN checks : checks[i].status # "fail"
        THEN FinalScore(user_profile, scheme).final_score
        ELSE 0)

\* check_eligibility for the scheme _find_scheme returned
CheckFound(scheme_id, scheme, user_profile) ==
    IF scheme = NoScheme
    THEN [error |-> "Scheme not found", eligible |-> FALSE]
    ELSE Checked(scheme_id, scheme, user_profile,
                 EligibilityChecks(user_profile, scheme.eligibility))

\* MatchingEngine.check_eligibility
check_eligibility(all_schemes, user_profile, scheme_id) ==
    CheckFound(scheme_id, _find_scheme(all_schemes, scheme_id), user_profile)

\* ------------------------------------------------------------------------
\* Matching engine: the engine object and its operations
\* ------------------------------------------------------------------------

\* MatchingEngine.__init__: the fields of a new engine over a scheme list.
\* _filter_stats is a defaultdict(int): every reason starts at 0.
NewEngine(scheme_list) ==
    [schemes |-> scheme_list,
     _cache |-> <<>>,
     _cache_hits |-> 0,
     _cache_misses |-> 0,
     _total_matches_run |-> 0,
     _filter_stats |-> [reason \in FilterReasons |-> 0]]

\* "x or default" on an optional integer argument (None and 0 are falsy)
OrDefault(x, default) == IF x = None \/ x = 0 THEN default ELSE x

\* self._cache[key] = value
CachePut(cache, key, value) ==
    [k \in DOMAIN cache \cup {key} |-> IF k = key THEN value ELSE cache[k]]

\* find_matches on a cache hit: the cached list, cut to max_results
Hit(started, cached, limit) ==
    [self |-> [started EXCEPT !._cache_hits = @ + 1],
     ret |-> Take(cached, limit)]

\* find_matches from the cache write on
Store(counted, cache_key, result_dicts) ==
    [self |-> [counted EXCEPT !._cache = CachePut(@, cache_key, result_dicts)],
     ret |-> result_dicts]

\* the scheme list after a find_matches that writes the match metadata into
\* the scheme dicts themselves instead of into copies
MarkedInPlace(all_schemes, result_dicts) ==
    [i \in DOMAIN all_schemes |->
        IF \E k \in DOMAIN result_dicts : result_dicts[k].id = all_schemes[i].id
        THEN result_dicts[CHOOSE k \in DOMAIN result_dicts :
                              result_dicts[k].id = all_schemes[i].id]
        ELSE all_schemes[i]]

\* find_matches on a cache miss with to_dict working on the scheme dict
\* itself
MissInPlace(started, cache_key, limit, outcomes) ==
    Store([started EXCEPT !._cache_misses = @ + 1,
                          !._filter_stats = Tally(@, outcomes),
                          !.schemes = MarkedInPlace(@, Ranked(Matched(outcomes),
                                                              limit))],
          cache_key, Ranked(Matched(outcomes), limit))

\* find_matches on a cache miss, from the outcomes of the loop on
Miss(started, cache_key, limit, outcomes) ==
    Store([started EXCEPT !._cache_misses = @ + 1,
                          !._filter_stats = Tally(@, outcomes)],
          cache_key, Ranked(Matched(outcomes), limit))

\* find_matches once max_results and min_score are defaulted and capped and
\* the cache key is built.  cached = self._cache.get(cache_key), and
\* "if cached" is false for a missing key and for an empty cached list.
Lookup(self, user_profile, limit, floor, include_reasons, category_filter, type_filter, debug, cache_key) ==
    IF /\ cache_key \in DOMAIN self._cache
       /\ self._cache[cache_key] # <<>>
       /\ ~debug
    THEN Hit([self EXCEPT !._total_matches_run = @ + 1],
             self._cache[cache_key], limit)
    ELSE Miss([self EXCEPT !._total_matches_run = @ + 1], cache_key, limit,
              Loop(user_profile,
                   _pre_filter(self.schemes, category_filter, type_filter),
                   floor, include_reasons))

\* MatchingEngine.find_matches: the engine after the call and the returned
\* list
find_matches(self, user_profile, max_results, min_score, include_reasons, category_filter, type_filter, debug) ==
    Lookup(self, user_profile,
           Min(OrDefault(max_results, DEFAULT_MAX_RESULTS),
               ABSOLUTE_MAX_RESULTS),
           OrDefault(min_score, MIN_MATCH_SCORE),
           include_reasons, category_filter, type_filter, debug,
           _build_cache_key(user_profile, category_filter, type_filter))

\* MatchingEngine.clear_cache
clear_cache(self) == [self EXCEPT !._cache = <<>>]

\* update_schemes that replaces the list and leaves the cache as it is
update_schemes_keep_cache(self, new_schemes) ==
    [self EXCEPT !.schemes = new_schemes]

\* MatchingEngine.update_schemes
update_schemes(self, new_schemes) ==
    clear_cache([self EXCEPT !.schemes = new_schemes])

\* ------------------------------------------------------------------------
\* Matching engine: derived queries
\* ------------------------------------------------------------------------

\* truthiness of an optional integer rule field (None and 0 are falsy)
IsSet(x) == x # None /\ x # 0

\* find_near_misses: the failure_reasons of the individual re-check of the
\* filters, in order; each names the filter and the values formatted into it
NearMissFailures(user_profile, eligibility) ==
    LET states == eligibility.states
        gender_req == eligibility.gender
        user_age == _safe_int(user_profile.age)
        min_age == eligibility.min_age
        max_age == eligibility.max_age
        max_income == eligibility.max_income
        user_income == _safe_int(user_profile.annual_income)
    IN  When(states # ALL /\ user_profile.state \notin Items(states),
             [kind |-> "State: need", states |-> states])
        \o When(gender_req # "all"
                /\ Lower(user_profile.gender) # Lower(gender_req),
                [kind |-> "Gender: need", gender |-> gender_req])
        \o When(IsSet(min_age) /\ user_age < min_age,
                [kind |-> "Age: need >=", min_age |-> min_age,
                 you |-> user_age])
        \o When(IsSet(max_age) /\ user_age > max_age,
                [kind |-> "Age: need <=", max_age |-> max_age,
                 you |-> user_age])
        \o When(IsSet(max_income) /\ user_income > max_income,
                [kind |-> "Income: need <=", max_income |-> max_income,
                 you |-> user_income])

\* the scheme_copy find_near_misses appends for a scheme with one failure
NearMissEntry(scheme, failure_reasons) ==
    Merge(scheme, [near_miss |-> TRUE, failure_reasons |-> failure_reasons,
                   failures_count |-> Len(failure_reasons)])

\* the loop of find_near_misses: a scheme is kept when the hard filters
\* reject it and exactly one individual re-check fails
NearMisses(all_schemes, user_profile) ==
    LET kept ==
            SelectSeq(all_schemes,
                      LAMBDA s :
                          /\ ~_pass_hard_filters(user_profile,
                                                 s.eligibility).passed
                          /\ Len(NearMissFailures(user_profile,
                                                  s.eligibility)) = 1)
    IN  [i \in DOMAIN kept |->
            NearMissEntry(kept[i],
                          NearMissFailures(user_profile, kept[i].eligibility))]

\* MatchingEngine.find_near_misses
find_near_misses(all_schemes, user_profile, max_results) ==
    Take(NearMisses(all_schemes, user_profile), max_results)

\* the keys of by_category in insertion order: the categories of the matches
\* in order of first occurrence
RECURSIVE FirstSeen(_)
FirstSeen(cats) ==
    IF cats = <<>> THEN <<>>
    ELSE <<Head(cats)>>
         \o FirstSeen(SelectSeq(Tail(cats), LAMBDA c : c # Head(cats)))

\* by_category[cat] of find_best_by_category: the first max_per_category
\* matches of the category
Bucket(all_matches, cat, max_per_category) ==
    Take(SelectSeq(all_matches, LAMBDA m : m.category = cat),
         max_per_category)

\* find_best_by_category from the matches on: the dict sorted_categories as
\* the sequence of its items, in insertion order
Categorised(all_matches, cats, max_per_category) ==
    StableSort(
        [i \in DOMAIN cats |->
            [category |-> cats[i],
             schemes |-> Bucket(all_matches, cats[i], max_per_category)]],
        [i \in DOMAIN cats |->
            <<0 - (IF Bucket(all_matches, cats[i], max_per_category) = <<>>
                   THEN 0
                   ELSE Bucket(all_matches, cats[i],
                               max_per_category)[1].match_score)>>])

\* find_best_by_category from the result of its find_matches call on
BestOf(matched, max_per_category) ==
    [self |-> matched.self,
     ret |-> Categorised(matched.ret,
                         FirstSeen([i \in DOMAIN matched.ret |->
                                       matched.ret[i].category]),
                         max_per_category)]

\* MatchingEngine.find_best_by_category: the engine after the call and the
\* returned dict
find_best_by_category(self, user_profile, max_per_category) ==
    BestOf(find_matches(self, user_profile, ABSOLUTE_MAX_RESULTS,
                        MIN_MATCH_SCORE, FALSE, Nil, Nil, FALSE),
           max_per_category)

\* MatchingEngine._summarize_profile: the parts of the summary, in order; a
\* part is left out when its field is falsy
_summarize_profile(profile) ==
    When(IsSet(profile.age), <<"age", profile.age>>)
    \o When(profile.gender # "", <<"gender", profile.gender>>)
    \o When(profile.state # "", <<"state", profile.state>>)
    \o When(profile.category # "", <<"cat", profile.category>>)
    \o When(profile.occupation # "", <<"occ", profile.occupation>>)

\* the entry batch_match appends for profile number i (counted from 0)
BatchEntry(i, profile, results) ==
    [profile_index |-> i, profile_summary |-> _summarize_profile(profile),
     total_matches |-> Len(results), schemes |-> results]

\* all_results with the entry of one profile before those of the later ones
BatchCons(entry, rest) ==
    [self |-> rest.self, ret |-> <<entry>> \o rest.ret]

\* the loop of batch_match from profile number i on, after the find_matches
\* call for that profile returned matched
RECURSIVE BatchFrom(_, _, _, _)
BatchNext(matched, user_profiles, max_results_each, i) ==
    BatchCons(BatchEntry(i, user_profiles[i + 1], matched.ret),
              BatchFrom(matched.self, user_profiles, max_results_each, i + 1))

\* the loop of batch_match from profile number i on
BatchFrom(self, user_profiles, max_results_each, i) ==
    IF i >= Len(user_profiles)
    THEN [self |-> self, ret |-> <<>>]
    ELSE BatchNext(find_matches(self, user_profiles[i + 1], max_results_each,
                                None, FALSE, Nil, Nil, FALSE),
                   user_profiles, max_results_each, i)

\* MatchingEngine.batch_match: the engine after the call and the returned list
batch_match(self, user_profiles, max_results_each) ==
    BatchFrom(self, user_profiles, max_results_each, 0)

\* MatchingEngine.get_scheme_detail: the scheme dict of the engine itself
get_scheme_detail(all_schemes, scheme_id) ==
    _find_scheme(all_schemes, scheme_id)

\* the returned value is a fresh object
NotShared == [kind |-> "none"]

\* the returned list is the list object stored in the cache under key
SharesList(key) == [kind |-> "cache_list", key |-> key]

\* the returned list is a new list of the dicts of the list cached under key
SharesItems(key) == [kind |-> "cache_items", key |-> key]

\* the list batch_match returned, keys[j] being the cache key of profile
\* number j: 'schemes' of entry j is the list cached under keys[j] itself
\* where kinds[j] is "list", a new list of the dicts of that list where it
\* is "items", and shares nothing where it is "none"
SharesBatch(keys, kinds) ==
    [kind |-> "nested", by |-> "profile", keys |-> keys, kinds |-> kinds]

\* what entry j of the list batch_match returned shares with the cache the
\* call leaves: its find_matches call was a hit when the cache held a
\* non-empty list under its key, from before the call or from an earlier
\* profile of the batch; the list of a miss is the cached one unless the
\* miss of a later profile has replaced it
BatchKind(cache_before, keys, results, j) ==
    LET hit(i) ==
            \/ keys[i] \in DOMAIN cache_before /\ cache_before[keys[i]] # <<>>
            \/ \E h \in 1..(i - 1) :
                   keys[h] = keys[i] /\ results[h].schemes # <<>>
    IN  IF hit(j) THEN "items"
        ELSE IF \E l \in (j + 1)..Len(keys) : keys[l] = keys[j] /\ ~hit(l)
        THEN "none"
        ELSE "list"

\* the dict find_best_by_category returned: the dicts of its lists are
\* dicts of the list cached under key
SharesBuckets(key) == [kind |-> "nested", by |-> "category", key |-> key]

\* the returned dict is the dict of the engine's scheme list with this id
SharesScheme(scheme_id) == [kind |-> "scheme", id |-> scheme_id]

\* the dict check_eligibility returned for the scheme with this id:
\* 'required' of the checks named in fields is the list of the scheme's rule
SharesRequired(scheme_id, fields) ==
    [kind |-> "required", id |-> scheme_id, fields |-> fields]

\* what the result check_eligibility returned for scheme_id shares
RequiredOf(result, scheme_id) ==
    IF RequiredLists(result) = {}
    THEN NotShared
    ELSE SharesRequired(scheme_id, RequiredLists(result))

\* the threads that may call the engine at the same time
Callers == {"a", "b"}

\* a caller with no call in progress
Idle == [pc |-> "idle"]

\* calls run one at a time: no call is ever left in progress
Sequential == inflight = [c \in Callers |-> Idle] /\ UNCHANGED inflight

\* the engine object of the current state
Self ==
    [schemes |-> schemes, _cache |-> _cache, _cache_hits |-> _cache_hits,
     _cache_misses |-> _cache_misses,
     _total_matches_run |-> _total_matches_run,
     _filter_stats |-> _filter_stats]

\* the engine object of the next state is e
Becomes(e) ==
    /\ schemes' = e.schemes
    /\ _cache' = e._cache
    /\ _cache_hits' = e._cache_hits
    /\ _cache_misses' = e._cache_misses
    /\ _total_matches_run' = e._total_matches_run
    /\ _filter_stats' = e._filter_stats

\* a call that leaves the engine as r.self and returns r.ret
Returns(r) ==
    /\ Becomes(r.self)
    /\ ret' = r.ret

\* engine = MatchingEngine(Catalog)
Init ==
    /\ schemes = NewEngine(Catalog).schemes
    /\ _cache = NewEngine(Catalog)._cache
    /\ _cache_hits = NewEngine(Catalog)._cache_hits
    /\ _cache_misses = NewEngine(Catalog)._cache_misses
    /\ _total_matches_run = NewEngine(Catalog)._total_matches_run
    /\ _filter_stats = NewEngine(Catalog)._filter_stats
    /\ call = [op |-> "__init__"]
    /\ ret = <<>>
    /\ shared = NotShared
    /\ inflight = [c \in Callers |-> Idle]
    /\ weight_profiles = WeightProfile
    /\ scorers = <<ScoringEngine("balanced", TRUE)>>
    /\ answered = {}

\* engine.find_matches(user_profile, max_results, min_score, include_reasons,
\*                     category_filter, type_filter, debug): a hit returns a
\* new list of the cached dicts, a miss the list it has put in the cache
FindMatchesCall(user_profile, max_results, min_score, include_reasons, category_filter, type_filter, debug) ==
    /\ Returns(find_matches(Self, user_profile, max_results, min_score,
                            include_reasons, category_filter, type_filter,
                            debug))
    /\ call' = [op |-> "find_matches",
                user_profile |-> user_profile,
                max_results |-> max_results,
                min_score |-> min_score,
                include_reasons |-> include_reasons,
                category_filter |-> category_filter,
                type_filter |-> type_filter,
                debug |-> debug]
    /\ shared' = IF _cache_hits' # _cache_hits
                 THEN SharesItems(_build_cache_key(user_profile,
                                                   category_filter,
                                                   type_filter))
                 ELSE SharesList(_build_cache_key(user_profile,
                                                  category_filter,
                                                  type_filter))
    /\ Sequential
    /\ UNCHANGED scoring_vars

\* a find_matches call with any of the arguments the engine is exercised
\* with
FindMatches ==
    /\ _total_matches_run < MaxMatchesRun
    /\ \E user_profile \in EngineProfiles, max_results \in MaxResultsArgs,
          min_score \in MinScoreArgs, include_reasons \in BOOLEAN,
          category_filter \in CategoryArgs, type_filter \in TypeArgs,
          debug \in BOOLEAN :
          FindMatchesCall(user_profile, max_results, min_score,
                          include_reasons, category_filter, type_filter,
                          debug)
    /\ UNCHANGED answered

\* engine.compare_schemes(user_profile, scheme_ids)
CompareSchemes ==
    \E user_profile \in EngineProfiles, scheme_ids \in SchemeIdLists :
        /\ ret' = compare_schemes(schemes, user_profile, scheme_ids)
        /\ call' = [op |-> "compare_schemes", user_profile |-> user_profile,
                    scheme_ids |-> scheme_ids]
        /\ shared' = NotShared
        /\ UNCHANGED engine_vars
        /\ Sequential
        /\ UNCHANGED <<scoring_vars, answered>>

\* engine.check_eligibility(user_profile, scheme_id)
CheckEligibility ==
    \E user_profile \in EngineProfiles, scheme_id \in SchemeIds :
        /\ ret' = check_eligibility(schemes, user_profile, scheme_id)
        /\ call' = [op |-> "check_eligibility",
                    user_profile |-> user_profile, scheme_id |-> scheme_id]
        /\ shared' = RequiredOf(ret', scheme_id)
        /\ UNCHANGED engine_vars
        /\ Sequential
        /\ UNCHANGED <<scoring_vars, answered>>

\* engine.update_schemes(new_schemes)
UpdateSchemes ==
    \E new_schemes \in Catalogs :
        /\ Becomes(update_schemes(Self, new_schemes))
        /\ call' = [op |-> "update_schemes", new_schemes |-> new_schemes]
        /\ ret' = <<>>
        /\ shared' = NotShared
        /\ answered' = {}
        /\ Sequential
        /\ UNCHANGED scoring_vars

\* engine.clear_cache()
ClearCache ==
    /\ Becomes(clear_cache(Self))
    /\ call' = [op |-> "clear_cache"]
    /\ ret' = <<>>
    /\ shared' = NotShared
    /\ answered' = {}
    /\ Sequential
    /\ UNCHANGED scoring_vars

\* engine.find_near_misses(user_profile, max_results)
FindNearMisses ==
    \E user_profile \in EngineProfiles, max_results \in NearMissArgs :
        /\ ret' = find_near_misses(schemes, user_profile, max_results)
        /\ call' = [op |-> "find_near_misses",
                    user_profile |-> user_profile,
                    max_results |-> max_results]
        /\ shared' = NotShared
        /\ UNCHANGED engine_vars
        /\ Sequential
        /\ UNCHANGED <<scoring_vars, answered>>

\* engine.find_best_by_category(user_profile, max_per_category)
FindBestByCategory ==
    /\ _total_matches_run < MaxMatchesRun
    /\ \E user_profile \in EngineProfiles,
          max_per_category \in MaxPerCategoryArgs :
          /\ Returns(find_best_by_category(Self, user_profile,
                                           max_per_category))
          /\ call' = [op |-> "find_best_by_category",
                      user_profile |-> user_profile,
                      max_per_category |-> max_per_category]
          /\ shared' = SharesBuckets(_build_cache_key(user_profile, Nil, Nil))
    /\ Sequential
    /\ UNCHANGED <<scoring_vars, answered>>

\* engine.batch_match(user_profiles, max_results_each)
BatchMatch ==
    \E user_profiles \in ProfileLists, max_results_each \in MaxResultsEachArgs :
        /\ _total_matches_run + Len(user_profiles) <= MaxMatchesRun
        /\ Returns(batch_match(Self, user_profiles, max_results_each))
        /\ call' = [op |-> "batch_match", user_profiles |-> user_profiles,
                    max_results_each |-> max_results_each]
        /\ shared' =
               LET keys == [j \in DOMAIN user_profiles |->
                               _build_cache_key(user_profiles[j], Nil, Nil)]
               IN  SharesBatch(keys,
                               [j \in DOMAIN keys |->
                                   BatchKind(_cache, keys, ret', j)])
        /\ Sequential
        /\ UNCHANGED <<scoring_vars, answered>>

\* engine.get_scheme_detail(scheme_id)
GetSchemeDetail ==
    \E scheme_id \in SchemeIds :
        /\ ret' = get_scheme_detail(schemes, scheme_id)
        /\ call' = [op |-> "get_scheme_detail", scheme_id |-> scheme_id]
        /\ shared' = IF ret' = NoScheme THEN NotShared
                     ELSE SharesScheme(scheme_id)
        /\ UNCHANGED engine_vars
        /\ Sequential
        /\ UNCHANGED <<scoring_vars, answered>>

Next ==
    \/ FindMatches
    \/ FindBestByCategory
    \/ BatchMatch
    \/ CompareSchemes
    \/ FindNearMisses
    \/ UpdateSchemes
    \/ ClearCache
    \/ CheckEligibility
    \/ GetSchemeDetail

Spec == Init /\ [][Next]_vars

\* ------------------------------------------------------------------------
\* The engine with a record of its answers: every find_matches call is kept
\* with the list it returned until update_schemes or clear_cache runs, so
\* that a later call can be compared with an earlier one of the same
\* arguments
\* ------------------------------------------------------------------------

\* the profiles of the recorded calls
RepeatProfiles == {PA, PE}

\* number of find_matches calls followed when the answers are recorded: two
\* calls of the same arguments and one call between them
MaxRepeatRuns == 3

\* engine.find_matches(user_profile, max_results=max_results,
\*                     min_score=min_score, debug=debug), recorded
FindMatchesRecorded ==
    /\ _total_matches_run < MaxRepeatRuns
    /\ \E user_profile \in RepeatProfiles, max_results \in MaxResultsArgs,
          min_score \in MinScoreArgs, debug \in BOOLEAN :
          FindMatchesCall(user_profile, max_results, min_score, FALSE, Nil,
                          Nil, debug)
    /\ answered' = answered \cup {[call |-> call', ret |-> ret']}

NextRepeat ==
    \/ FindMatchesRecorded
    \/ UpdateSchemes
    \/ ClearCache

SpecRepeat == Init /\ [][NextRepeat]_vars

\* ------------------------------------------------------------------------
\* The scoring and filtering functions on their own: one profile and one
\* rule are chosen at the start, then one of the functions is applied
\* ------------------------------------------------------------------------

\* ------------------------------------------------------------------------
\* The engine together with a caller that writes to the value it was last
\* handed.  A Python list or dict handed out by reference is the engine's
\* own object, so the write lands in the engine.
\* ------------------------------------------------------------------------

\* ret[0]['match_score'] = 0 on a list returned by find_matches: its dicts
\* are the dicts of the list cached under key
SetFirstScore(key) ==
    /\ ret # <<>>
    /\ ret' = [ret EXCEPT ![1].match_score = 0]
    /\ _cache' = [_cache EXCEPT ![key][1].match_score = 0]
    /\ call' = [op |-> "mutate", what |-> "ret[0]['match_score'] = 0"]
    /\ UNCHANGED <<schemes, shared>>

\* ret.clear() on the list a cache miss returned: it is the cached list
ClearReturned(key) ==
    /\ ret' = <<>>
    /\ _cache' = [_cache EXCEPT ![key] = <<>>]
    /\ call' = [op |-> "mutate", what |-> "ret.clear()"]
    /\ UNCHANGED <<schemes, shared>>

\* the scheme list with the category of the first scheme with the id set
Recategorised(all_schemes, scheme_id, category) ==
    [i \in DOMAIN all_schemes |->
        IF /\ all_schemes[i].id = scheme_id
           /\ \A j \in 1..(i - 1) : all_schemes[j].id # scheme_id
        THEN [all_schemes[i] EXCEPT !.category = category]
        ELSE all_schemes[i]]

\* ret['category'] = 'other' on the dict get_scheme_detail returned: it is
\* the dict of self.schemes
SetCategory(scheme_id) ==
    /\ ret' = [ret EXCEPT !.category = "other"]
    /\ schemes' = Recategorised(schemes, scheme_id, "other")
    /\ call' = [op |-> "mutate", what |-> "ret['category'] = 'other'"]
    /\ UNCHANGED <<_cache, shared>>

\* the scheme list with the states list of the rule of the first scheme with
\* the id emptied
WithoutStates(all_schemes, scheme_id) ==
    [i \in DOMAIN all_schemes |->
        IF /\ all_schemes[i].id = scheme_id
           /\ \A j \in 1..(i - 1) : all_schemes[j].id # scheme_id
        THEN [all_schemes[i] EXCEPT !.eligibility.states = <<>>]
        ELSE all_schemes[i]]

\* ret['checks'][2]['required'].clear() on the dict check_eligibility
\* returned: checks[2] is the state check and its 'required' the states
\* list of the scheme's rule
ClearRequired(scheme_id) ==
    /\ ret' = [ret EXCEPT !.checks[3].required = <<>>]
    /\ schemes' = WithoutStates(schemes, scheme_id)
    /\ call' = [op |-> "mutate",
                what |-> "ret['checks'][2]['required'].clear()"]
    /\ UNCHANGED <<_cache, shared>>

\* ret[0]['schemes'][0]['match_score'] = 0 on the list batch_match
\* returned: the dict is the first of the list cached under the key of the
\* first profile, and the first of 'schemes' in every entry of that key
SetBatchScore(keys) ==
    /\ ret # <<>>
    /\ ret[1].schemes # <<>>
    /\ ret' = [j \in DOMAIN ret |->
                  IF keys[j] = keys[1]
                  THEN [ret[j] EXCEPT !.schemes[1].match_score = 0]
                  ELSE ret[j]]
    /\ _cache' = [_cache EXCEPT ![keys[1]][1].match_score = 0]
    /\ call' = [op |-> "mutate",
                what |-> "ret[0]['schemes'][0]['match_score'] = 0"]
    /\ UNCHANGED <<schemes, shared>>

\* ret[0]['schemes'].clear() on the list batch_match returned, 'schemes' of
\* its first entry being the cached list: the dicts a later entry of the
\* same key holds are then no longer in the cache
ClearBatchList(keys, kinds) ==
    /\ ret' = [ret EXCEPT ![1].schemes = <<>>]
    /\ _cache' = [_cache EXCEPT ![keys[1]] = <<>>]
    /\ shared' = SharesBatch(keys,
                             [j \in DOMAIN kinds |->
                                 IF j # 1 /\ keys[j] = keys[1]
                                 THEN "none" ELSE kinds[j]])
    /\ call' = [op |-> "mutate", what |-> "ret[0]['schemes'].clear()"]
    /\ UNCHANGED schemes

\* the index in the cached list of the first match of a category
FirstOfCategory(cached, category) ==
    CHOOSE i \in DOMAIN cached :
        /\ cached[i].category = category
        /\ \A j \in 1..(i - 1) : cached[j].category # category

\* next(iter(ret.values()))[0]['match_score'] = 0 on the dict
\* find_best_by_category returned: the dict is the first match of that
\* category in the list cached under key
SetBucketScore(key) ==
    /\ ret # <<>>
    /\ ret' = [ret EXCEPT ![1].schemes[1].match_score = 0]
    /\ _cache' = [_cache EXCEPT
                     ![key][FirstOfCategory(_cache[key],
                                            ret[1].category)].match_score = 0]
    /\ call' = [op |-> "mutate",
                what |-> "next(iter(ret.values()))[0]['match_score'] = 0"]
    /\ UNCHANGED <<schemes, shared>>

\* the caller writes to the value returned by the last call; it holds the
\* same object after the write as before
MutateReturned ==
    /\ \/ shared.kind \in {"cache_list", "cache_items"}
          /\ SetFirstScore(shared.key)
       \/ shared.kind = "cache_list" /\ ClearReturned(shared.key)
       \/ shared.kind = "scheme" /\ SetCategory(shared.id)
       \/ shared.kind = "required" /\ "state" \in shared.fields
          /\ ClearRequired(shared.id)
       \/ shared.kind = "nested" /\ shared.by = "profile"
          /\ SetBatchScore(shared.keys)
       \/ shared.kind = "nested" /\ shared.by = "profile"
          /\ shared.kinds # <<>> /\ shared.kinds[1] = "list"
          /\ ClearBatchList(shared.keys, shared.kinds)
       \/ shared.kind = "nested" /\ shared.by = "category"
          /\ SetBucketScore(shared.key)
    /\ UNCHANGED <<_cache_hits, _cache_misses, _total_matches_run,
                   _filter_stats>>
    /\ Sequential
    /\ UNCHANGED <<scoring_vars, answered>>

\* the operations that hand out objects of the engine, the two that drop
\* the cache, and the writes of the caller; compare_schemes and
\* find_near_misses return deep copies, which leave the caller nothing of
\* the engine to write to
NextCaller ==
    \/ FindMatches
    \/ FindBestByCategory
    \/ BatchMatch
    \/ CheckEligibility
    \/ GetSchemeDetail
    \/ UpdateSchemes
    \/ ClearCache
    \/ MutateReturned

SpecCaller == Init /\ [][NextCaller]_vars

\* ------------------------------------------------------------------------
\* The engine called from several threads.  MatchingEngine takes no lock, so
\* a call of one thread runs in steps between which the other thread may
\* run.  find_matches: line 161, the counter of runs (Begin); lines 163-171,
\* the cache lookup (CacheLookup); line 173 or 177, the counter of hits or
\* misses (Count); line 180, the read of self.schemes in _pre_filter
\* (PreFilter); one pass of the loop of lines 198-245 for each candidate
\* (Iterate); lines 247-259, the sort and the cache write (Finish); line
\* 284, the return after the calls of lines 262-283 (Return).
\* update_schemes: the assignment to self.schemes (Replace), clear_cache
\* (Clear) and the return after logger.info (Return).  Each += on a counter
\* is one step.
\* ------------------------------------------------------------------------

\* the profiles matched by the concurrent callers
ConcProfiles == {PA, PC}

\* number of find_matches calls followed when calls run concurrently
MaxConcMatches == 3

\* find_matches(user_profile) with every other argument at its default
DefaultCall(user_profile) ==
    [op |-> "find_matches", user_profile |-> user_profile,
     max_results |-> None, min_score |-> None, include_reasons |-> FALSE,
     category_filter |-> Nil, type_filter |-> Nil, debug |-> FALSE]

\* the cache key of a find_matches call c
KeyOf(c) == _build_cache_key(c.user_profile, c.category_filter, c.type_filter)

\* the max_results find_matches works with (lines 163-166)
LimitOf(fm) ==
    Min(OrDefault(fm.max_results, DEFAULT_MAX_RESULTS), ABSOLUTE_MAX_RESULTS)

\* the calls in progress once the entries under keys have left the cache
\* (overwritten or cleared): the list a thread holds from its lookup is then
\* no longer the list in the cache
Detach(keys) ==
    [d \in Callers |->
        IF /\ inflight[d].pc \in {"count", "return"}
           /\ inflight[d].live
           /\ KeyOf(inflight[d].call) \in keys
        THEN [inflight[d] EXCEPT !.live = FALSE]
        ELSE inflight[d]]

\* what the value last returned shares with the engine once the entries
\* under keys have left the cache
Unshared(keys) ==
    IF shared.kind \in {"cache_list", "cache_items"} /\ shared.key \in keys
    THEN NotShared
    ELSE shared

\* thread c starts find_matches(user_profile): line 161,
\* self._total_matches_run += 1
Begin(c) ==
    /\ inflight[c] = Idle
    /\ _total_matches_run < MaxConcMatches
    /\ \E user_profile \in ConcProfiles :
          inflight' = [inflight EXCEPT ![c] =
                          [pc |-> "lookup", call |-> DefaultCall(user_profile)]]
    /\ _total_matches_run' = _total_matches_run + 1
    /\ UNCHANGED <<schemes, _cache, _cache_hits, _cache_misses,
                   _filter_stats, call, ret, shared>>
    /\ UNCHANGED <<scoring_vars, answered>>

\* thread c runs lines 163-171: cached = self._cache.get(cache_key), the
\* list in the cache; None reads as the empty list, both being falsy
CacheLookup(c) ==
    /\ inflight[c].pc = "lookup"
    /\ inflight' =
           [inflight EXCEPT ![c] =
               [pc |-> "count", call |-> inflight[c].call,
                cached |-> IF KeyOf(inflight[c].call) \in DOMAIN _cache
                           THEN _cache[KeyOf(inflight[c].call)]
                           ELSE <<>>,
                live |-> KeyOf(inflight[c].call) \in DOMAIN _cache]]
    /\ UNCHANGED <<engine_vars, call, ret, shared>>
    /\ UNCHANGED <<scoring_vars, answered>>

\* lines 172-176, cached is truthy: self._cache_hits += 1 and the call
\* returns cached[:max_results]
CountHit(c) ==
    /\ inflight[c].cached # <<>>
    /\ Returns(Hit(Self, inflight[c].cached, LimitOf(inflight[c].call)))
    /\ call' = inflight[c].call
    /\ shared' = IF inflight[c].live
                 THEN SharesItems(KeyOf(inflight[c].call))
                 ELSE NotShared
    /\ inflight' = [inflight EXCEPT ![c] = Idle]

\* line 177, cached is falsy: self._cache_misses += 1 and the call goes on
\* to _pre_filter
CountMiss(c) ==
    /\ inflight[c].cached = <<>>
    /\ _cache_misses' = _cache_misses + 1
    /\ inflight' = [inflight EXCEPT ![c] =
                       [pc |-> "pre_filter", call |-> inflight[c].call]]
    /\ UNCHANGED <<schemes, _cache, _cache_hits, _total_matches_run,
                   _filter_stats, call, ret, shared>>

\* thread c acts on what its lookup found
Count(c) ==
    /\ inflight[c].pc = "count"
    /\ \/ CountHit(c)
       \/ CountMiss(c)
    /\ UNCHANGED <<scoring_vars, answered>>

\* thread c runs line 180: candidate_schemes is read from self.schemes
PreFilter(c) ==
    /\ inflight[c].pc = "pre_filter"
    /\ inflight' =
           [inflight EXCEPT ![c] =
               [pc |-> "loop", call |-> inflight[c].call,
                candidate_schemes |->
                    _pre_filter(schemes, inflight[c].call.category_filter,
                                inflight[c].call.type_filter),
                outcomes |-> <<>>]]
    /\ UNCHANGED <<engine_vars, call, ret, shared>>
    /\ UNCHANGED <<scoring_vars, answered>>

\* thread c runs the loop body of lines 198-245 for its next candidate: a
\* rejection is counted in self._filter_stats, a match appended to matched
Iterate(c) ==
    LET t == inflight[c]
        outcome == LoopBody(t.call.user_profile,
                            t.candidate_schemes[Len(t.outcomes) + 1],
                            OrDefault(t.call.min_score, MIN_MATCH_SCORE),
                            t.call.include_reasons)
    IN  /\ t.pc = "loop"
        /\ Len(t.outcomes) < Len(t.candidate_schemes)
        /\ _filter_stats' = Tally(_filter_stats, <<outcome>>)
        /\ inflight' = [inflight EXCEPT ![c].outcomes = Append(@, outcome)]
        /\ UNCHANGED <<schemes, _cache, _cache_hits, _cache_misses,
                       _total_matches_run, call, ret, shared>>
        /\ UNCHANGED <<scoring_vars, answered>>

\* thread c has left the loop: lines 247-259, the sort and the cache write
\* self._cache[cache_key] = result_dicts
Finish(c) ==
    LET fm == inflight[c].call
        stored == Store(Self, KeyOf(fm),
                        Ranked(Matched(inflight[c].outcomes), LimitOf(fm)))
    IN  /\ inflight[c].pc = "loop"
        /\ Len(inflight[c].outcomes) = Len(inflight[c].candidate_schemes)
        /\ Becomes(stored.self)
        /\ inflight' = [Detach({KeyOf(fm)}) EXCEPT ![c] =
                           [pc |-> "return", call |-> fm,
                            result |-> stored.ret, live |-> TRUE]]
        /\ shared' = Unshared({KeyOf(fm)})
        /\ UNCHANGED <<call, ret>>
        /\ UNCHANGED <<scoring_vars, answered>>

\* thread c returns: find_matches at line 284 with result_dicts, the list
\* it stored, which is the list in the cache unless the entry has been
\* replaced or cleared since; update_schemes at the end of line 1066
Return(c) ==
    /\ inflight[c].pc = "return"
    /\ ret' = inflight[c].result
    /\ call' = inflight[c].call
    /\ shared' = IF inflight[c].live
                 THEN SharesList(KeyOf(inflight[c].call))
                 ELSE NotShared
    /\ inflight' = [inflight EXCEPT ![c] = Idle]
    /\ UNCHANGED engine_vars
    /\ UNCHANGED <<scoring_vars, answered>>

\* thread c starts update_schemes(new_schemes): line 1064
Replace(c) ==
    /\ inflight[c] = Idle
    /\ \E new_schemes \in Catalogs :
          /\ schemes' = new_schemes
          /\ inflight' = [inflight EXCEPT ![c] =
                             [pc |-> "clear_cache",
                              new_schemes |-> new_schemes]]
    /\ UNCHANGED <<_cache, _cache_hits, _cache_misses, _total_matches_run,
                   _filter_stats, call, ret, shared>>
    /\ UNCHANGED <<scoring_vars, answered>>

\* thread c runs line 1065, self.clear_cache(): self._cache.clear()
Clear(c) ==
    /\ inflight[c].pc = "clear_cache"
    /\ Becomes(clear_cache(Self))
    /\ inflight' = [Detach(DOMAIN _cache) EXCEPT ![c] =
                       [pc |-> "return",
                        call |-> [op |-> "update_schemes",
                                  new_schemes |-> inflight[c].new_schemes],
                        result |-> <<>>, live |-> FALSE]]
    /\ shared' = Unshared(DOMAIN _cache)
    /\ UNCHANGED <<call, ret>>
    /\ UNCHANGED <<scoring_vars, answered>>

NextConc ==
    \E c \in Callers :
        \/ Begin(c)
        \/ CacheLookup(c)
        \/ Count(c)
        \/ PreFilter(c)
        \/ Iterate(c)
        \/ Finish(c)
        \/ Replace(c)
        \/ Clear(c)
        \/ Return(c)

SpecConc == Init /\ [][NextConc]_vars

\* every hard filter at once
Rule_strict ==
    [EmptyRule EXCEPT !.states = <<"Bihar">>, !.gender = "female",
                      !.min_age = 18, !.max_age = 40, !.max_income = 100,
                      !.is_bpl = True]

\* a zero income limit
Rule_zero == [EmptyRule EXCEPT !.max_income = 0]

\* the rule of the "Perfect Match Scheme"
Rule_perfect ==
    [EmptyRule EXCEPT !.min_age = 18, !.max_age = 40,
                      !.category = {"obc", "sc", "st"}, !.max_income = 200000,
                      !.occupation = {"farmer"}, !.is_bpl = True]

PureRules == CatalogRules \cup {Rule_strict, Rule_zero, Rule_perfect}

\* the empty profile
PD == Profile(None, "", "", "", None, "", NoFlag, NoFlag, NoFlag, NoFlag)

\* the farmer the "Perfect Match Scheme" is written for
PF == Profile(28, "male", "Bihar", "obc", 120000, "farmer",
              True, NoFlag, NoFlag, NoFlag)

PureProfiles ==
    {Profile(age, gender, state, "sc", annual_income, "farmer",
             is_bpl, NoFlag, NoFlag, True) :
        age \in {None, 17, 30, 65}, gender \in {"", "male", "female"},
        state \in {"", "Kerala", "Bihar"}, annual_income \in {None, 90, 150},
        is_bpl \in {NoFlag, True}}
    \cup EngineProfiles \cup {PD, PF}

InitPure ==
    /\ Init!1 /\ Init!2 /\ Init!3 /\ Init!4 /\ Init!5 /\ Init!6
    /\ Init!9 /\ Init!10 /\ Init!11 /\ Init!12 /\ Init!13
    /\ \E user_profile \in PureProfiles, eligibility \in PureRules :
          call = [op |-> "input", user_profile |-> user_profile,
                  eligibility |-> eligibility]
    /\ ret = <<>>

\* breakdown = ScoringEngine().calculate_detailed_score(user, eligibility)
CalculateDetailedScore ==
    /\ call.op = "input"
    /\ ret' = IF IncomeRaises(call.user_profile, call.eligibility,
                              FreshScorer)
              THEN [raised |-> "ZeroDivisionError"]
              ELSE calculate_detailed_score(call.user_profile,
                                            call.eligibility, FreshScorer)
    /\ call' = [call EXCEPT !.op = "calculate_detailed_score"]
    /\ UNCHANGED <<engine_vars, shared, inflight>>
    /\ UNCHANGED <<scoring_vars, answered>>

\* passed, reason = engine._pass_hard_filters(user, eligibility)
PassHardFilters ==
    /\ call.op = "input"
    /\ ret' = _pass_hard_filters(call.user_profile, call.eligibility)
    /\ call' = [call EXCEPT !.op = "_pass_hard_filters"]
    /\ UNCHANGED <<engine_vars, shared, inflight>>
    /\ UNCHANGED <<scoring_vars, answered>>

\* the engine MatchingEngine([scheme]) over one scheme carrying the rule
OneSchemeEngine(eligibility) ==
    NewEngine(<<Scheme("one", "health", "central", "u", "d", eligibility)>>)

\* MatchingEngine([scheme]).find_matches(user, min_score=min_score)
FindMatchesOne ==
    /\ call.op = "input"
    /\ \E min_score \in MinScoreArgs :
          /\ Returns(find_matches(OneSchemeEngine(call.eligibility),
                                  call.user_profile, None, min_score, TRUE,
                                  Nil, Nil, FALSE))
          /\ call' = [op |-> "find_matches",
                      user_profile |-> call.user_profile,
                      eligibility |-> call.eligibility,
                      max_results |-> None,
                      min_score |-> min_score,
                      include_reasons |-> TRUE,
                      category_filter |-> Nil,
                      type_filter |-> Nil,
                      debug |-> FALSE]
    /\ shared' = SharesList(_build_cache_key(call.user_profile, Nil, Nil))
    /\ UNCHANGED inflight
    /\ UNCHANGED <<scoring_vars, answered>>

\* MatchingEngine([scheme]).compare_schemes(user, ["one", "unknown"])
CompareSchemesOne ==
    /\ call.op = "input"
    /\ Becomes(OneSchemeEngine(call.eligibility))
    /\ ret' = compare_schemes(OneSchemeEngine(call.eligibility).schemes,
                              call.user_profile, <<"one", "unknown">>)
    /\ call' = [call EXCEPT !.op = "compare_schemes"]
    /\ UNCHANGED <<shared, inflight>>
    /\ UNCHANGED <<scoring_vars, answered>>

\* MatchingEngine([scheme]).check_eligibility(user, "one")
CheckEligibilityOne ==
    /\ call.op = "input"
    /\ Becomes(OneSchemeEngine(call.eligibility))
    /\ ret' = check_eligibility(OneSchemeEngine(call.eligibility).schemes,
                                call.user_profile, "one")
    /\ call' = [call EXCEPT !.op = "check_eligibility"]
    /\ shared' = RequiredOf(ret', "one")
    /\ UNCHANGED inflight
    /\ UNCHANGED <<scoring_vars, answered>>

\* MatchingEngine([scheme]).find_near_misses(user, max_results)
FindNearMissesOne ==
    /\ call.op = "input"
    /\ Becomes(OneSchemeEngine(call.eligibility))
    /\ \E max_results \in NearMissArgs :
          /\ ret' = find_near_misses(OneSchemeEngine(call.eligibility).schemes,
                                     call.user_profile, max_results)
          /\ call' = [op |-> "find_near_misses",
                      user_profile |-> call.user_profile,
                      eligibility |-> call.eligibility,
                      max_results |-> max_results]
    /\ UNCHANGED <<shared, inflight>>
    /\ UNCHANGED <<scoring_vars, answered>>

NextPure ==
    \/ CalculateDetailedScore
    \/ PassHardFilters
    \/ CheckEligibilityOne
    \/ FindMatchesOne
    \/ FindNearMissesOne
    \/ CompareSchemesOne

SpecPure == InitPure /\ [][NextPure]_vars

\* ------------------------------------------------------------------------
\* The scorer alone: one calculate_detailed_score call on inputs that walk
\* each dimension across its bands
\* ------------------------------------------------------------------------

\* an age range only
Rule_age == [EmptyRule EXCEPT !.min_age = 20, !.max_age = 40]

\* an income limit only
Rule_income == [EmptyRule EXCEPT !.max_income = 100]

\* an income limit whose band edges 0.5M, 0.8M and 1.1M are not integers
Rule_income_odd == [EmptyRule EXCEPT !.max_income = 37]

\* three special flags, one of them required to be False
Rule_flags ==
    [EmptyRule EXCEPT !.is_bpl = True, !.is_farmer = False,
                      !.is_student = True]

\* one special flag
Rule_student == [EmptyRule EXCEPT !.is_student = True]

\* one special flag required to be False
Rule_not_farmer == [EmptyRule EXCEPT !.is_farmer = False]

\* one requirement each on gender, state, category and occupation
Rule_gender == [EmptyRule EXCEPT !.gender = "female"]
Rule_state == [EmptyRule EXCEPT !.states = <<"Bihar">>]
Rule_category == [EmptyRule EXCEPT !.category = {"sc", "st"}]
Rule_occupation == [EmptyRule EXCEPT !.occupation = {"farmer"}]

\* more states than the five a detail text lists, none of them Bihar,
\* Kerala or a neighbour of either
Rule_six_states ==
    [EmptyRule EXCEPT !.states = <<"Punjab", "Haryana", "Gujarat",
                                   "Rajasthan", "Sikkim", "Goa">>]

ScoreRules ==
    {EmptyRule, Rule_age, Rule_income, Rule_income_odd, Rule_flags,
     Rule_student, Rule_not_farmer, Rule_gender, Rule_state, Rule_category,
     Rule_occupation, Rule_six_states, Rule_women, Rule_strict,
     Rule_perfect}

\* ages from far below the range 20..40 to far above it
ScoreAges == {None, 10, 14, 15, 16, 19, 20, 21, 25, 30, 35, 39, 40, 41, 44,
              45, 46, 50}

\* incomes on both sides of every band edge of the limits 100 and 37
ScoreIncomes == {None, 1, 18, 19, 29, 30, 37, 38, 40, 41, 50, 51, 70, 80, 81,
                 95, 100, 101, 105, 110, 111, 150}

\* what a profile may say about a flag
FlagValues == {NoFlag, Nil, True, False}

ScoreProfiles ==
    {Profile(age, "female", "Bihar", "sc", 90, "farmer",
             True, NoFlag, NoFlag, NoFlag) : age \in ScoreAges}
    \cup {Profile(30, "male", "Kerala", "obc", annual_income, "teacher",
                  NoFlag, NoFlag, NoFlag, NoFlag) :
             annual_income \in ScoreIncomes}
    \cup {Profile(30, "female", "Bihar", "st", 50, "farmer",
                  is_bpl, is_farmer, is_student, NoFlag) :
             is_bpl \in FlagValues, is_farmer \in FlagValues,
             is_student \in FlagValues}
    \cup {PD, PF}

InitScore ==
    /\ Init!1 /\ Init!2 /\ Init!3 /\ Init!4 /\ Init!5 /\ Init!6
    /\ Init!9 /\ Init!10 /\ Init!11 /\ Init!12 /\ Init!13
    /\ \E user_profile \in ScoreProfiles, eligibility \in ScoreRules :
          call = [op |-> "input", user_profile |-> user_profile,
                  eligibility |-> eligibility]
    /\ ret = <<>>

NextScore == CalculateDetailedScore

SpecScore == InitScore /\ [][NextScore]_vars

\* ------------------------------------------------------------------------
\* Scoring engines and their weights: instances are constructed, reweighted
\* with change_weights and asked for scores, and the engine matches and
\* compares with the weights its scorer holds
\* ------------------------------------------------------------------------

\* number of find_matches calls followed while the weights change
MaxWeightedRuns == 2

\* number of ScoringEngine instances followed, engine.scorer included
MaxScorers == 2

\* the weight_profile arguments instances are constructed with; an unknown
\* name falls back to the balanced preset
PresetArgs == {"balanced", "Economic", "unknown"}

\* the profile_name arguments of change_weights; "" stands for None
ProfileNameArgs == {"", "economic"}

\* the (user, eligibility) pairs instances are asked to score
Probes == {<<PA, Rule_women>>, <<PC, Rule_pension>>}

\* calculate_detailed_score of the scorers tabulated above on those pairs,
\* evaluated once: the set of (scorer, pair, breakdown)
DetailTable ==
    {<<scorer, probe,
       calculate_detailed_score(probe[1], probe[2], scorer)>> :
        scorer \in TableScorers, probe \in Probes}

\* scorer.calculate_detailed_score(user, eligibility): read from the table
\* where the table has the breakdown, computed otherwise
detailed_score_by(scorer, user, eligibility) ==
    IF scorer \in TableScorers /\ <<user, eligibility>> \in Probes
    THEN (CHOOSE t \in DetailTable :
             t[1] = scorer /\ t[2] = <<user, eligibility>>)[3]
    ELSE calculate_detailed_score(user, eligibility, scorer)

\* ScoringEngine.change_weights: the class dicts and the instance afterwards
change_weights(profiles, self, new_weights, profile_name) ==
    IF profile_name # ""
    THEN [weight_profiles |-> profiles,
          self |-> [self EXCEPT !.WEIGHTS = get_profile(profile_name),
                                !.profile_name = profile_name]]
    ELSE IF new_weights # {}
    THEN [weight_profiles |->
              [profiles EXCEPT ![self.WEIGHTS] = Update(@, new_weights)],
          self |-> [self EXCEPT !.profile_name = "custom"]]
    ELSE [weight_profiles |-> profiles, self |-> self]

\* ScoringEngine(weight_profile)
NewScoringEngine ==
    /\ Len(scorers) < MaxScorers
    /\ \E weight_profile \in PresetArgs :
          /\ scorers' = Append(scorers, ScoringEngine(weight_profile, TRUE))
          /\ call' = [op |-> "ScoringEngine", scorer |-> Len(scorers) + 1,
                      weight_profile |-> weight_profile]
    /\ ret' = <<>>
    /\ shared' = NotShared
    /\ UNCHANGED <<engine_vars, inflight, weight_profiles, answered>>

\* scorers[i].change_weights(new_weights, profile_name)
ChangeWeights ==
    /\ \E i \in DOMAIN scorers, new_weights \in NewWeightsArgs,
          profile_name \in ProfileNameArgs :
          LET r == change_weights(weight_profiles, scorers[i], new_weights,
                                  profile_name)
          IN  /\ weight_profiles' = r.weight_profiles
              /\ scorers' = [scorers EXCEPT ![i] = r.self]
              /\ call' = [op |-> "change_weights", scorer |-> i,
                          new_weights |-> new_weights,
                          profile_name |-> profile_name]
    /\ ret' = <<>>
    /\ shared' = NotShared
    /\ UNCHANGED <<engine_vars, inflight, answered>>

\* scorers[i].calculate_detailed_score(user, eligibility)
CalculateDetailedScoreBy ==
    /\ \E i \in DOMAIN scorers, probe \in Probes :
          /\ ret' = detailed_score_by(
                        ScorerOf(weight_profiles, scorers[i]),
                        probe[1], probe[2])
          /\ call' = [op |-> "calculate_detailed_score", scorer |-> i,
                      user_profile |-> probe[1], eligibility |-> probe[2]]
    /\ shared' = NotShared
    /\ UNCHANGED <<engine_vars, inflight, scoring_vars, answered>>

\* engine.find_matches(user_profile) with the weights engine.scorer holds;
\* a hit returns what was scored when the entry was stored
FindMatchesWeighted ==
    /\ _total_matches_run < MaxWeightedRuns
    /\ \E user_profile \in {PA} :
          FindMatchesCall(user_profile, None, None, FALSE, Nil, Nil, FALSE)
    /\ UNCHANGED answered

\* engine.compare_schemes(user_profile, scheme_ids) with the weights
\* engine.scorer holds
CompareSchemesWeighted ==
    /\ \E user_profile \in {PA}, scheme_ids \in SchemeIdLists :
          /\ ret' = compare_schemes(schemes, user_profile, scheme_ids)
          /\ call' = [op |-> "compare_schemes",
                      user_profile |-> user_profile,
                      scheme_ids |-> scheme_ids]
    /\ shared' = NotShared
    /\ Sequential
    /\ UNCHANGED <<engine_vars, scoring_vars, answered>>

NextWeights ==
    \/ NewScoringEngine
    \/ ChangeWeights
    \/ CalculateDetailedScoreBy
    \/ FindMatchesWeighted
    \/ CompareSchemesWeighted

SpecWeights == Init /\ [][NextWeights]_vars

\* ------------------------------------------------------------------------
\* Properties
\* ------------------------------------------------------------------------

\* the floor find_matches derives from the arguments of a call
FloorOf(c) == OrDefault(c.min_score, MIN_MATCH_SCORE)

\* the schemes of the engine a find_matches call c ranges over
CandidatesOf(c) == _pre_filter(schemes, c.category_filter, c.type_filter)

\* the list a find_matches call c computes from the engine's schemes when
\* nothing is cached
Fresh(c) ==
    Ranked(Matched(Loop(c.user_profile, CandidatesOf(c), FloorOf(c),
                        c.include_reasons)),
           LimitOf(c))

\* the hard-filter dimensions of rule e that profile user violates
Violated(user, e) ==
    {d \in {"state", "gender", "age", "income", "bpl"} :
        CASE d = "state" -> e.states # ALL /\ user.state \notin Items(e.states)
          [] d = "gender" -> /\ e.gender # "all"
                             /\ Lower(user.gender) # ""
                             /\ Lower(user.gender) # Lower(e.gender)
          [] d = "age" -> \/ e.min_age # None /\ _safe_int(user.age) < e.min_age
                          \/ e.max_age # None /\ _safe_int(user.age) > e.max_age
          [] d = "income" -> /\ e.max_income # None
                             /\ _safe_int(user.annual_income) > 0
                             /\ _safe_int(user.annual_income) > e.max_income
          [] d = "bpl" -> e.is_bpl = True /\ ~Truthy(user.is_bpl)}

\* the documented order of the hard-filter checks
CheckOrder == <<"state", "gender", "age", "income", "bpl">>

\* the first dimension of CheckOrder in the non-empty set ds
FirstViolated(ds) ==
    CheckOrder[CHOOSE i \in DOMAIN CheckOrder :
                  /\ CheckOrder[i] \in ds
                  /\ \A j \in 1..(i - 1) : CheckOrder[j] \notin ds]

\* the dimension a rejection reason belongs to
DimensionOf(reason) ==
    CASE reason = STATE_MISMATCH -> "state"
      [] reason = GENDER_MISMATCH -> "gender"
      [] reason \in {AGE_TOO_YOUNG, AGE_TOO_OLD} -> "age"
      [] reason = INCOME_TOO_HIGH -> "income"
      [] reason = BPL_REQUIRED -> "bpl"
      [] OTHER -> "none"

\* the tier the documented thresholds 90 / 75 / 50 give a score
TierOf(score) ==
    CASE score >= 90 -> "perfect"
      [] score >= 75 /\ score < 90 -> "strong"
      [] score >= 50 /\ score < 75 -> "moderate"
      [] score < 50 -> "partial"

\* C1: for any profile, calculate_detailed_score against a rule with every
\* field unset yields final_score 50 and confidence 0.
C1_NoConstraintNeutral ==
    (call.op = "calculate_detailed_score" /\ call.eligibility = EmptyRule)
        => (ret.final_score = NEUTRAL_SCORE /\ ret.confidence = 0)

\* C2: a find_matches call returns the ordered list (same schemes, order,
\* match_score, match_tier and match_reasons) that every earlier call with
\* the same profile and the same arguments returned, no update_schemes or
\* clear_cache having run in between; other calls may have.
C2_Idempotent ==
    [][call'.op = "find_matches"
       => \A earlier \in answered :
              earlier.call = call' => ret' = earlier.ret]_vars

\* C3: a scheme whose max_income is set and below the profile's annual_income
\* is absent from the list find_matches returns, whatever calls preceded.
C3_IncomeHardFilter ==
    call.op = "find_matches" =>
        \A i \in DOMAIN schemes :
            (/\ schemes[i].eligibility.max_income # None
             /\ _safe_int(call.user_profile.annual_income)
                    > schemes[i].eligibility.max_income)
            => \A j \in DOMAIN ret : ret[j].id # schemes[i].id

\* C3 witness: find_matches returned a non-empty list while a candidate whose
\* only failing hard filter is income would have scored at least min_score.
C3_Witness ==
    /\ call.op = "find_matches"
    /\ ret # <<>>
    /\ \E i \in DOMAIN CandidatesOf(call) :
          /\ Violated(call.user_profile, CandidatesOf(call)[i].eligibility)
                = {"income"}
          /\ FinalScore(call.user_profile, CandidatesOf(call)[i]).final_score
                >= FloorOf(call)

\* C4: when a profile violates more than one hard filter of a rule, the
\* reason _pass_hard_filters reports, the reason find_matches tallies and the
\* rejection_reason compare_schemes returns are those of the first violated
\* check in the order state, gender, age, income, BPL.
C4_FirstFailingCheck ==
    (/\ call.op \in {"_pass_hard_filters", "find_matches", "compare_schemes"}
     /\ "eligibility" \in DOMAIN call
     /\ Cardinality(Violated(call.user_profile, call.eligibility)) > 1)
    => LET first ==
               FirstViolated(Violated(call.user_profile, call.eligibility))
       IN  CASE call.op = "_pass_hard_filters" ->
                    ~ret.passed /\ DimensionOf(ret.reason) = first
             [] call.op = "find_matches" ->
                    /\ ret = <<>>
                    /\ \E r \in FilterReasons :
                          /\ DimensionOf(r) = first
                          /\ _filter_stats[r] = 1
                          /\ \A o \in FilterReasons \ {r} :
                                _filter_stats[o] = 0
             [] call.op = "compare_schemes" ->
                    \A i \in DOMAIN ret :
                        "eligible" \in DOMAIN ret[i] =>
                            /\ ~ret[i].eligible
                            /\ DimensionOf(ret[i].rejection_reason) = first

\* C4 witness: gender and income are both violated, state is not, and the
\* reported reason is the gender one.
C4_Witness ==
    /\ call.op = "_pass_hard_filters"
    /\ Violated(call.user_profile, call.eligibility) = {"gender", "income"}
    /\ ret.reason = GENDER_MISMATCH

\* C5: _pass_hard_filters never rejects on state, gender, income or BPL a
\* profile that leaves that field unspecified.
C5_MissingNeverRejected ==
    call.op = "_pass_hard_filters" =>
        /\ ret.reason = STATE_MISMATCH => call.user_profile.state # ""
        /\ ret.reason = GENDER_MISMATCH => call.user_profile.gender # ""
        /\ ret.reason = INCOME_TOO_HIGH
               => call.user_profile.annual_income # None
        /\ ret.reason = BPL_REQUIRED => call.user_profile.is_bpl # NoFlag

\* C6: after any earlier calls, every entry find_matches returns has
\* match_score >= min_score (30 when min_score is not given).
C6_MinScoreRespected ==
    call.op = "find_matches" =>
        \A i \in DOMAIN ret : ret[i].match_score >= FloorOf(call)

\* the candidates of a find_matches call that pass the hard filters and
\* score at least min_score
Qualifying(c) ==
    {i \in DOMAIN CandidatesOf(c) :
        /\ Violated(c.user_profile, CandidatesOf(c)[i].eligibility) = {}
        /\ FinalScore(c.user_profile, CandidatesOf(c)[i]).final_score
              >= FloorOf(c)}

\* C7: after any earlier calls, find_matches returns min(max_results, 100,
\* number of qualifying schemes) entries, and no qualifying scheme left out
\* scores higher than one returned.
C7_TopK ==
    call.op = "find_matches" =>
        /\ Len(ret) = Min(LimitOf(call), Cardinality(Qualifying(call)))
        /\ \A i \in Qualifying(call) :
              (\A j \in DOMAIN ret : ret[j].id # CandidatesOf(call)[i].id)
              => \A j \in DOMAIN ret :
                    ret[j].match_score
                        >= FinalScore(call.user_profile,
                                      CandidatesOf(call)[i]).final_score

\* C8: the list find_matches returns is ordered by non-increasing
\* match_score, on a cache miss and on a cache hit.
C8_SortedByScore ==
    call.op = "find_matches" =>
        \A i, j \in DOMAIN ret :
            i < j => ret[i].match_score >= ret[j].match_score

\* C8 witness: a cache hit returned at least three entries of different
\* scores, in an order other than the catalog's.
C8_Witness ==
    /\ call.op = "find_matches"
    /\ _total_matches_run = 2 /\ _cache_hits = 1
    /\ Len(ret) >= 3
    /\ ret[1].match_score > ret[Len(ret)].match_score
    /\ ret[1].id # CandidatesOf(call)[1].id

\* C9: every entry of find_matches and every eligible entry of
\* compare_schemes has the match_tier its match_score gives under the
\* thresholds 90 / 75 / 50.
C9_TierFromScore ==
    call.op \in {"find_matches", "compare_schemes"} =>
        \A i \in DOMAIN ret :
            ("match_tier" \in DOMAIN ret[i])
            => ret[i].match_tier = TierOf(ret[i].match_score)

\* C9 witness: one find_matches result holds entries of all four tiers.
C9_Witness ==
    /\ call.op = "find_matches"
    /\ \A t \in {"perfect", "strong", "moderate", "partial"} :
          \E i \in DOMAIN ret :
              ret[i].match_tier = t /\ TierOf(ret[i].match_score) = t

\* C10: every score produced is an integer in 0..100: final_score of
\* calculate_detailed_score, which there is for any profile and rule, and
\* match_score of every entry of find_matches, compare_schemes and
\* check_eligibility.
C10_ScoreRange ==
    CASE call.op = "calculate_detailed_score" ->
             "final_score" \in DOMAIN ret /\ ret.final_score \in 0..100
      [] call.op \in {"find_matches", "compare_schemes"} ->
             \A i \in DOMAIN ret :
                 "match_score" \in DOMAIN ret[i]
                 => ret[i].match_score \in 0..100
      [] call.op = "check_eligibility" ->
             "match_score" \in DOMAIN ret => ret.match_score \in 0..100
      [] OTHER -> TRUE

\* ------------------------------------------------------------------------
\* Reload, concurrency and frame conditions
\* ------------------------------------------------------------------------

\* the scheme dict a result dict was copied from
SchemeOf(entry) ==
    [f \in DOMAIN Catalog[1] |-> entry[f]]

\* every result dict of entries is a scheme of the engine's current list
\* with the score the engine computes for that scheme and some profile
ComputedFromSchemes(entries) ==
    \A i \in DOMAIN entries :
        \E j \in DOMAIN schemes, p \in EngineProfiles :
            /\ SchemeOf(entries[i]) = schemes[j]
            /\ entries[i].match_score = FinalScore(p, schemes[j]).final_score

\* C11: when update_schemes(new_schemes) has returned, the engine holds
\* new_schemes and its cache is empty, and from then on every cached list and
\* every list a sequential find_matches returns consists of results computed
\* from the engine's current scheme list only
C11_ReloadDropsCache ==
    /\ call.op = "update_schemes" =>
           _cache = <<>> /\ schemes = call.new_schemes
    /\ \A key \in DOMAIN _cache : ComputedFromSchemes(_cache[key])
    /\ call.op = "find_matches" => ComputedFromSchemes(ret)

\* a find_matches after an earlier find_matches and a reload to Catalog2
\* returns the pension scheme as Catalog2 defines it
C11_Witness ==
    /\ call.op = "find_matches"
    /\ schemes = Catalog2
    /\ _total_matches_run = 2
    /\ _cache_misses = 2
    /\ Cardinality(DOMAIN _cache) = 1
    /\ \E i \in DOMAIN ret : ret[i].id = "pension"

\* every thread is between calls
AllIdle == \A c \in Callers : inflight[c] = Idle

\* C12: under any interleaving of update_schemes with concurrently running
\* find_matches calls, once every call in progress has returned the cache
\* holds only entries computed from the engine's current scheme list, so no
\* later find_matches returns results of a replaced list
C12_NoStaleEntryAfterReload ==
    AllIdle => \A key \in DOMAIN _cache : ComputedFromSchemes(_cache[key])

\* C13: a write by the caller to a list or record that find_matches or
\* get_scheme_detail returned leaves the engine's cache and scheme list as
\* they were
C13_ReturnedValuesIndependent ==
    [][call'.op = "mutate" => _cache' = _cache /\ schemes' = schemes]_vars

\* the operations that only read the scheme collection
ReadOnlyOps ==
    {"find_matches", "find_near_misses", "compare_schemes",
     "check_eligibility", "find_best_by_category", "batch_match"}

\* C14: find_matches, find_near_misses, compare_schemes, check_eligibility,
\* find_best_by_category and batch_match leave the scheme list and every
\* scheme record of it unchanged; only update_schemes changes it
C14_SchemesUnchanged ==
    [][call'.op \in ReadOnlyOps => schemes' = schemes]_vars

\* find_best_by_category has returned matches carrying match_score while no
\* scheme record of the engine carries it
C14_Witness ==
    /\ call.op = "find_best_by_category"
    /\ ret # <<>>
    /\ ret[1].schemes[1].match_score > 0
    /\ schemes = Catalog
    /\ \A i \in DOMAIN schemes : "match_score" \notin DOMAIN schemes[i]

\* ------------------------------------------------------------------------
\* Derived queries
\* ------------------------------------------------------------------------

\* the profile violates the state filter of the rule and none of its gender,
\* age and income filters: of the hard filters find_near_misses looks at,
\* state is the only one that rejects it
StateOnly(user, e) ==
    Violated(user, e) \cap {"state", "gender", "age", "income"} = {"state"}

\* C15: a scheme whose state criterion is the only one the profile violates
\* (its gender, age and income criteria are satisfied) is reported by
\* find_near_misses with failures_count 1 and the state failure as the one
\* reason, max_results being at least the number of near misses
C15_StateOnlyNearMiss ==
    (call.op = "find_near_misses" /\ StateOnly(call.user_profile,
                                               call.eligibility))
    => /\ Len(ret) = 1
       /\ ret[1].id = "one"
       /\ ret[1].near_miss
       /\ ret[1].failures_count = 1
       /\ ret[1].failure_reasons[1].kind = "State: need"

\* the call is for a male profile and a rule that requires gender female
MaleAgainstFemaleRule ==
    /\ Lower(call.user_profile.gender) = "male"
    /\ Lower(call.eligibility.gender) = "female"

\* the result of check_eligibility names the rejection reason: in a field of
\* the result or of one of its checks
ReportsReason(result, reason) ==
    \/ "reason" \in DOMAIN result /\ result.reason = reason
    \/ "rejection_reason" \in DOMAIN result /\ result.rejection_reason = reason
    \/ \E i \in DOMAIN result.checks :
           "reason" \in DOMAIN result.checks[i]
           /\ result.checks[i].reason = reason

\* C16 as stated: for a male profile and a rule requiring gender female the
\* scheme is absent from find_matches, and check_eligibility reports eligible
\* false together with the reason gender_mismatch
C16_AsStated ==
    /\ (call.op = "find_matches" /\ MaleAgainstFemaleRule) => ret = <<>>
    /\ (call.op = "check_eligibility" /\ MaleAgainstFemaleRule)
       => ~ret.eligible /\ ReportsReason(ret, GENDER_MISMATCH)

\* C16: for a male profile and a rule requiring gender female the scheme is
\* absent from find_matches, and check_eligibility reports eligible false
\* together with a check on the field gender whose status is fail
C16_GenderRejected ==
    /\ (call.op = "find_matches" /\ MaleAgainstFemaleRule) => ret = <<>>
    /\ (call.op = "check_eligibility" /\ MaleAgainstFemaleRule)
       => /\ ~ret.eligible
          /\ ret.match_score = 0
          /\ \E i \in DOMAIN ret.checks :
                 ret.checks[i] = [field |-> "gender", status |-> "fail"]

\* a man of 30 of category sc against the women's scheme: gender is the one
\* check that fails
C16_Witness ==
    /\ call.op = "check_eligibility"
    /\ MaleAgainstFemaleRule
    /\ call.eligibility = Rule_women
    /\ ~ret.eligible
    /\ ret.failed = 1
    /\ ret.recommendation.kind = "Almost eligible"

\* entry is what compare_schemes must hold for scheme_id: a not-found entry
\* for an unknown id, and for a scheme the hard filters reject its copy with
\* score 0, eligible false and the rejection reason
EntryFor(entry, user_profile, scheme_id, scheme) ==
    IF scheme = NoScheme
    THEN entry = [scheme_id |-> scheme_id, found |-> FALSE,
                  error |-> "Scheme not found"]
    ELSE /\ "id" \in DOMAIN entry
         /\ entry.id = scheme_id
         /\ SchemeOf(entry) = scheme
         /\ ~_pass_hard_filters(user_profile, scheme.eligibility).passed
            => /\ entry.match_score = 0
               /\ ~entry.eligible
               /\ entry.rejection_reason =
                      _pass_hard_filters(user_profile,
                                         scheme.eligibility).reason

\* C17: compare_schemes returns one entry per requested id (a rejected scheme
\* with match_score 0, eligible false and its rejection reason; an unknown id
\* as a not-found entry), ordered by non-increasing match_score
C17_CompareComplete ==
    call.op = "compare_schemes"
    => /\ Len(ret) = Len(call.scheme_ids)
       /\ \A i \in DOMAIN call.scheme_ids :
              \E k \in DOMAIN ret :
                  EntryFor(ret[k], call.user_profile, call.scheme_ids[i],
                           _find_scheme(schemes, call.scheme_ids[i]))
       /\ \A k, m \in DOMAIN ret :
              k < m => MatchScoreOf(ret[k]) >= MatchScoreOf(ret[m])

\* a comparison over the first catalog that holds a not-found entry, a
\* rejected scheme and an eligible one, the eligible one first
C17_Witness ==
    /\ call.op = "compare_schemes"
    /\ schemes = Catalog
    /\ ret[1].eligible /\ ret[1].match_score > 0
    /\ \E k \in DOMAIN ret : "found" \in DOMAIN ret[k]
    /\ \E k \in DOMAIN ret :
           "rejection_reason" \in DOMAIN ret[k]
           /\ ret[k].rejection_reason = INCOME_TOO_HIGH

\* C18: the farmer PF (28, male, Bihar, obc, income 120000, BPL) against the
\* rule {age 18..40, any gender, any state, category obc/sc/st, income up to
\* 200000, occupation farmer, BPL} passes the hard filters and is returned by
\* find_matches with a final score of at least 90 and tier perfect
C18_PerfectMatch ==
    (call.user_profile = PF /\ call.eligibility = Rule_perfect)
    => /\ call.op = "_pass_hard_filters" => ret.passed
       /\ call.op = "find_matches"
          => /\ Len(ret) = 1
             /\ ret[1].match_score >= PERFECT_MATCH_THRESHOLD
             /\ ret[1].match_tier = "perfect"

\* find_matches has returned the scheme for PF with the three boosts applied
C18_Witness ==
    /\ call.op = "find_matches"
    /\ call.user_profile = PF
    /\ call.eligibility = Rule_perfect
    /\ Len(ret) = 1
    /\ ret[1].match_score = 100
    /\ ret[1].match_tier = "perfect"

\* the full match of a profile: every scheme of the engine that passes the
\* hard filters and scores at least MIN_MATCH_SCORE, ranked, up to the
\* ceiling
FullMatch(user_profile) ==
    Ranked(Matched(Loop(user_profile, schemes, MIN_MATCH_SCORE, FALSE)),
           ABSOLUTE_MAX_RESULTS)

\* the ids and scores of a list of result dicts, in order
IdsAndScores(entries) ==
    [i \in DOMAIN entries |-> <<entries[i].id, entries[i].match_score>>]

\* C19: whatever was called before, find_best_by_category(profile, N)
\* buckets the full match of the profile: every category of the full match
\* is present with its N highest-scoring qualifying schemes, and the
\* categories are ordered by non-increasing best score
C19_BestByCategory ==
    call.op = "find_best_by_category"
    => /\ \A k \in DOMAIN ret :
              IdsAndScores(ret[k].schemes) =
                  IdsAndScores(Bucket(FullMatch(call.user_profile),
                                      ret[k].category,
                                      call.max_per_category))
       /\ {ret[k].category : k \in DOMAIN ret} =
              {FullMatch(call.user_profile)[i].category :
                  i \in DOMAIN FullMatch(call.user_profile)}
       /\ \A k, m \in DOMAIN ret :
              k < m => ret[k].schemes[1].match_score
                       >= ret[m].schemes[1].match_score

\* the result of the filter-score-adjust-rank pipeline for a profile on a
\* fresh engine over the current schemes, cut to max_results
FreshFor(user_profile, max_results) ==
    Ranked(Matched(Loop(user_profile, schemes, MIN_MATCH_SCORE, FALSE)),
           max_results)

\* C20: the result batch_match gives for each profile of the batch is the
\* result of the pipeline for that profile on a fresh engine, whichever
\* profiles were matched before it; stated for a batch that is the first
\* matching the engine does
C20_ProfilesIndependent ==
    (call.op = "batch_match" /\ _total_matches_run = Len(call.user_profiles))
    => /\ Len(ret) = Len(call.user_profiles)
       /\ \A i \in DOMAIN ret :
              /\ ret[i].profile_index = i - 1
              /\ ret[i].schemes = FreshFor(call.user_profiles[i],
                                           call.max_results_each)

\* ------------------------------------------------------------------------
\* The score formula and the seven dimensions
\* ------------------------------------------------------------------------

\* the base percentage (total_earned / total_applicable) * 100 of a breakdown
BaseOf(breakdown) ==
    FVal(Mul(Div(Val(breakdown.total_earned),
                 Num(breakdown.total_applicable)),
             Num(100)))

\* the dimension called name in a breakdown
FieldOf(breakdown, name) ==
    breakdown.field_scores[name]

\* C21: when the seven dimensions sum to applicable > 0, final_score equals
\* round(100 * earned / applicable) + total bonus points - total penalty
\* points, clamped to [0, 100]: the base percentage is rounded to the nearest
\* integer before bonuses and penalties are applied.
C21_RoundedBase ==
    (call.op = "calculate_detailed_score" /\ ret.total_applicable > 0)
    => ret.final_score =
           Clamp(PyRound(BaseOf(ret)) + SumPoints(ret.bonuses)
                 - SumPoints(ret.penalties))

\* the seven dimensions of a breakdown
Dimensions ==
    {"age", "gender", "state", "category", "income", "occupation",
     "special_flags"}

\* rule e places a requirement on dimension d
Constrains(e, d) ==
    CASE d = "age" -> e.min_age # None \/ e.max_age # None
      [] d = "gender" -> e.gender # "all"
      [] d = "state" -> e.states # ALL
      [] d = "category" -> e.category # {}
      [] d = "income" -> e.max_income # None
      [] d = "occupation" -> e.occupation # {}
      [] d = "special_flags" -> \E f \in SpecialFlags : e[f] # NoFlag

\* C22: a dimension on which the eligibility rule places no constraint (no
\* age bounds, gender 'all', states 'all', no category set, no max_income, no
\* occupation set, no flags) contributes applicable = 0 and earned = 0.
C22_UnconstrainedExcluded ==
    call.op = "calculate_detailed_score"
    => \A d \in Dimensions :
          ~Constrains(call.eligibility, d)
          => /\ FieldOf(ret, d).applicable = 0
             /\ FieldOf(ret, d).earned = FZero

\* the profile supplies nothing for dimension d
Missing(user, d) ==
    CASE d = "age" -> user.age = None
      [] d = "gender" -> user.gender = ""
      [] d = "state" -> user.state = ""
      [] d = "category" -> user.category = ""
      [] d = "income" -> user.annual_income = None
      [] d = "occupation" -> user.occupation = ""

\* the flags rule e sets that the profile supplies with the required value
SuppliedMatching(user, e) ==
    {f \in SpecialFlags : e[f] # NoFlag /\ user[f] # NoFlag /\ user[f] = e[f]}

\* C23: on every dimension on which the rule sets a requirement, a profile
\* that does not supply the field earns 0 credit while the dimension keeps
\* applicable > 0; within the special flags, a flag the profile does not
\* supply earns nothing, so the block earns the weight once per flag that is
\* supplied and matches.
C23_MissingEarnsNothing ==
    call.op = "calculate_detailed_score"
    => /\ \A d \in Dimensions \ {"special_flags"} :
             (Constrains(call.eligibility, d) /\ Missing(call.user_profile, d))
             => /\ FieldOf(ret, d).applicable > 0
                /\ FieldOf(ret, d).earned = FZero
       /\ Constrains(call.eligibility, "special_flags")
          => /\ FieldOf(ret, "special_flags").applicable > 0
             /\ FieldOf(ret, "special_flags").earned =
                    FInt(DefaultScorer.WEIGHTS.special
                         * Cardinality(SuppliedMatching(call.user_profile,
                                                        call.eligibility)))

\* the documented income band of a positive income against the limit M > 0,
\* in percent
IncomeBand(income, M) ==
    IF 2 * income <= M THEN 100
    ELSE IF 5 * income <= 4 * M THEN 95
    ELSE IF income <= M THEN 85
    ELSE IF 10 * income <= 11 * M THEN 30
    ELSE 0

\* the income dimension the default scorer gives the profile with its
\* income replaced
IncomeFieldAt(user, income, e) ==
    _score_income([user EXCEPT !.annual_income = income], e, DefaultScorer)

\* C24: for a fixed max_income M > 0 the income dimension's gradient credit
\* is 100% for income <= 0.5M, 95% up to 0.8M, 85% up to M, 30% up to 1.1M
\* and 0% above, and it never increases with the user's positive income.
C24_IncomeBands ==
    LET e == call.eligibility
        M == e.max_income
        income == call.user_profile.annual_income
        f == FieldOf(ret, "income")
    IN  (call.op = "calculate_detailed_score" /\ M # None /\ M > 0
         /\ income # None /\ income > 0)
        => /\ f.applicable = DefaultScorer.WEIGHTS.income
           /\ f.gradient = FVal(Pct(IncomeBand(income, M)))
           /\ f.earned = Round(FVal(Mul(Num(f.applicable),
                                        Pct(IncomeBand(income, M)))), 2)
           /\ \A more \in ScoreIncomes \ {None} :
                 more >= income
                 => ~FLess(f.earned,
                           EntryOf(IncomeFieldAt(call.user_profile, more,
                                                 e)).earned)

\* an income of 40 against the limit 37, inside the 10% overshoot, has earned
\* the 30% band
C24_Witness ==
    /\ call.op = "calculate_detailed_score"
    /\ call.eligibility = Rule_income_odd
    /\ call.user_profile.annual_income = 40
    /\ FieldOf(ret, "income").gradient = FVal(Pct(30))
    /\ FieldOf(ret, "income").applicable = 15

\* how many years the positive age lies outside the range of rule e
\* (0 inside it)
YearsOutside(age, e) ==
    IF e.min_age # None /\ age < e.min_age THEN e.min_age - age
    ELSE IF e.max_age # None /\ age > e.max_age THEN age - e.max_age
    ELSE 0

\* the age dimension the default scorer gives the profile with its age
\* replaced
AgeFieldAt(user, age, e) ==
    _score_age([user EXCEPT !.age = age], e, DefaultScorer)

\* an age d years outside the range of rule e, on the side the user is on
AgeOutsideBy(user, d, e) ==
    IF e.min_age # None /\ user.age < e.min_age THEN e.min_age - d
    ELSE e.max_age + d

\* C25: for an age d years outside the eligible range the age dimension's
\* credit decays linearly in d for 1 <= d <= 5 (equal steps from one year to
\* the next) and is exactly 0 at the tolerance boundary d = 5 and beyond.
C25_AgeDecay ==
    LET e == call.eligibility
        user == call.user_profile
        d == YearsOutside(user.age, e)
        f == FieldOf(ret, "age")
        \* the stored gradient, in hundredths
        h(k) == RoundScaled(
                    EntryOf(AgeFieldAt(user, AgeOutsideBy(user, k, e),
                                       e)).gradient,
                    100)
    IN  (call.op = "calculate_detailed_score" /\ Constrains(e, "age")
         /\ user.age # None /\ user.age > 0 /\ d >= 1)
        => /\ f.applicable = DefaultScorer.WEIGHTS.age
           /\ d >= AGE_TOLERANCE => (f.gradient = FZero /\ f.earned = FZero)
           /\ (d >= 2 /\ d <= AGE_TOLERANCE /\ AgeOutsideBy(user, d, e) > 0)
              => h(d - 1) - h(d) = h(1) - h(2)

\* twice the distance of an age from the midpoint of the range of rule e
OffMidpoint(age, e) == Abs(2 * age - (e.min_age + e.max_age))

\* C26: for a rule with both min_age and max_age (min_age < max_age) the age
\* dimension's credit is non-increasing in the distance of the user's age
\* from the range midpoint: an age at least as far from the midpoint as the
\* user's earns no more (so the midpoint earns most and every in-range age
\* earns at least as much as every out-of-range age).
C26_AgeMidpoint ==
    LET e == call.eligibility
        user == call.user_profile
        f == FieldOf(ret, "age")
    IN  (call.op = "calculate_detailed_score"
         /\ e.min_age # None /\ e.max_age # None /\ e.min_age < e.max_age
         /\ user.age # None /\ user.age > 0)
        => \A other \in ScoreAges \ {None} :
              OffMidpoint(other, e) >= OffMidpoint(user.age, e)
              => ~FLess(f.earned, EntryOf(AgeFieldAt(user, other, e)).earned)

\* the special flags rule e sets, and those of them the profile matches
\* (a flag the profile does not carry reads as False)
FlagsSet(e) == {f \in SpecialFlags : e[f] # NoFlag}
FlagsMatched(user, e) == {f \in FlagsSet(e) : UserFlag(user[f]) = e[f]}

\* C27: whenever the rule sets at least one of is_bpl, is_farmer, is_student,
\* disability, the special-flags block's applicable equals the configured
\* 'special' weight however many flags are set, and its earned equals that
\* weight times the fraction of the set flags that the user matches.
C27_OneWeightedBlock ==
    LET e == call.eligibility
        f == FieldOf(ret, "special_flags")
        weight == DefaultScorer.WEIGHTS.special
    IN  (call.op = "calculate_detailed_score" /\ FlagsSet(e) # {})
        => /\ f.applicable = weight
           /\ f.earned =
                  Round(FVal(Mul(Num(weight),
                                 Div(Num(Cardinality(FlagsMatched(
                                         call.user_profile, e))),
                                     Num(Cardinality(FlagsSet(e)))))),
                        2)

\* ------------------------------------------------------------------------
\* Isolation of scoring engines
\* ------------------------------------------------------------------------

\* the final scores an instance computes for the probes, the class dicts
\* being profiles
ScoresOf(profiles, instance) ==
    [probe \in Probes |->
        calculate_score(probe[1], probe[2], ScorerOf(profiles, instance))]

\* the final scores the preset named weight_profile gives the probes
PresetScores(weight_profile) ==
    ScoresOf(WeightProfile, ScoringEngine(weight_profile, TRUE))

\* C28: scoring engines are isolated from one another: change_weights on one
\* instance leaves the scores computed by every other instance unchanged,
\* and an instance constructed afterwards with a named preset computes the
\* scores of that preset.
C28_ScorersIsolated ==
    [][/\ call'.op = "change_weights"
          => \A j \in DOMAIN scorers \ {call'.scorer} :
                ScoresOf(weight_profiles', scorers'[j])
                = ScoresOf(weight_profiles, scorers[j])
       /\ call'.op = "ScoringEngine"
          => ScoresOf(weight_profiles', scorers'[call'.scorer])
             = PresetScores(call'.weight_profile)]_vars

\* ------------------------------------------------------------------------
\* Agreement between the queries
\* ------------------------------------------------------------------------

\* C29: find_matches and check_eligibility agree: every scheme find_matches
\* returns for a profile is reported by check_eligibility for that profile
\* and scheme id with eligible true (no failed check).
C29_MatchesAreEligible ==
    call.op = "find_matches"
    => \A i \in DOMAIN ret :
          LET r == check_eligibility(schemes, call.user_profile, ret[i].id)
          IN  r.eligible /\ r.failed = 0

\* the profile with only the attribute named by a failure reason of
\* find_near_misses changed, to a value rule e accepts
Repaired(user, reason, e) ==
    CASE reason.kind = "State: need" ->
             [user EXCEPT !.state = e.states[1]]
      [] reason.kind = "Gender: need" -> [user EXCEPT !.gender = e.gender]
      [] reason.kind = "Age: need >=" -> [user EXCEPT !.age = e.min_age]
      [] reason.kind = "Age: need <=" -> [user EXCEPT !.age = e.max_age]
      [] reason.kind = "Income: need <=" ->
             [user EXCEPT !.annual_income = e.max_income]

\* C30: every scheme find_near_misses returns is one criterion away from
\* passing: it violates exactly one hard-filter criterion (BPL included), and
\* changing only the profile attribute named in its failure_reasons makes it
\* pass _pass_hard_filters.
C30_OneCriterionAway ==
    call.op = "find_near_misses"
    => \A i \in DOMAIN ret :
          /\ Cardinality(Violated(call.user_profile, ret[i].eligibility)) = 1
          /\ Len(ret[i].failure_reasons) = 1
          /\ _pass_hard_filters(
                 Repaired(call.user_profile, ret[i].failure_reasons[1],
                          ret[i].eligibility),
                 ret[i].eligibility).passed

=============================================================================
